---- MODULE Spec2Model ----
(***************************************************************************)
(* Market Index & Adjustment Engine of MarketAdjuster                      *)
(* (market_condition_app_v4_15_premium_plus.py).                           *)
(*                                                                         *)
(* Floating point values are modelled as exact rationals <<n, d>> in       *)
(* lowest terms with d > 0; NaN is <<0, 0>>.  Rounding error and overflow  *)
(* to infinity are outside the model.  Calendar dates are records          *)
(* [year, month, day] with the proleptic Gregorian ordinal of datetime.    *)
(***************************************************************************)
EXTENDS Integers, Sequences, FiniteSets, TLC

VARIABLES
    \* ---- session state of the Streamlit application (main) ----
    step,             \* st.session_state["step"]
    subject_address,  \* st.session_state["subject_address"]
    eff_date,         \* st.session_state["eff_date"]
    uploaded_data,    \* st.session_state["uploaded_data"]: NoData or rows
    diagnostics_df,   \* st.session_state["diagnostics_df"] present?
    excluded_rowids,  \* st.session_state["excluded_rowids"]
    selected_comps,   \* st.session_state["selected_comps"]
    settings,         \* st.session_state["settings"]
    filter_opt,       \* the "Show:" radio of step 3 (widget state)
    report,           \* what the last script run rendered at step 5
    history_file,     \* HISTORY_FILE: the saved reports, and whether it can be written
    \* ---- direct calls of the engine's functions ----
    pc,               \* "start" | "built" | "looked"
    in_df,            \* rows handed to build_index_cached
    in_min_sales,     \* min_sales argument
    in_smooth,        \* smooth_window argument
    index_df,         \* the series build_index_cached returned
    lk,               \* the last lookup_index call and its result
    iqr,              \* the last compute_iqr_flags_cached call and its result
    in_diag,          \* the rule settings of the diagnostics run called directly
    df_f,             \* the table that diagnostics run produced
    index_cache,      \* the memo table st.cache_data keeps for build_index_cached
    labels,           \* the last percent adjustment labelled, and its two labels
    calls             \* number of direct calls of the history functions so far

appVars  == <<step, subject_address, eff_date, uploaded_data, diagnostics_df,
              excluded_rowids, selected_comps, settings, filter_opt, report,
              history_file>>
callVars == <<pc, in_df, in_min_sales, in_smooth, index_df, lk, iqr, in_diag, df_f,
              index_cache, labels, calls>>
vars     == <<step, subject_address, eff_date, uploaded_data, diagnostics_df,
              excluded_rowids, selected_comps, settings, filter_opt, report,
              history_file,
              pc, in_df, in_min_sales, in_smooth, index_df, lk, iqr, in_diag, df_f,
              index_cache, labels, calls>>

----------------------------------------------------------------------------
(* Floats as exact rationals *)

Abs(x) == IF x < 0 THEN -x ELSE x

RECURSIVE Gcd(_, _)
Gcd(a, b) == IF b = 0 THEN a ELSE Gcd(b, a % b)

\* n/d in lowest terms, d > 0 (d # 0 required)
Frac(n, d) ==
    LET g == Gcd(Abs(n), Abs(d))
        s == IF d < 0 THEN -1 ELSE 1
    IN  <<(s * n) \div g, (s * d) \div g>>

NaN == <<0, 0>>
F(n) == <<n, 1>>

\* pd.isna on a float
isna(x) == x[2] = 0

FAdd(a, b) == IF isna(a) \/ isna(b) THEN NaN
              ELSE Frac(a[1] * b[2] + b[1] * a[2], a[2] * b[2])
FSub(a, b) == IF isna(a) \/ isna(b) THEN NaN
              ELSE Frac(a[1] * b[2] - b[1] * a[2], a[2] * b[2])
FMul(a, b) == IF isna(a) \/ isna(b) THEN NaN
              ELSE Frac(a[1] * b[1], a[2] * b[2])
\* every division of the modelled code is guarded against a zero divisor;
\* an unguarded one yields a non-finite value, which the model folds into NaN
FDiv(a, b) == IF isna(a) \/ isna(b) \/ b[1] = 0 THEN NaN
              ELSE Frac(a[1] * b[2], a[2] * b[1])

\* comparisons are false when an operand is NaN, as in IEEE 754
FLt(a, b) == ~isna(a) /\ ~isna(b) /\ a[1] * b[2] < b[1] * a[2]
FLe(a, b) == ~isna(a) /\ ~isna(b) /\ a[1] * b[2] <= b[1] * a[2]
FEq(a, b) == ~isna(a) /\ ~isna(b) /\ a = b
FIsZero(a) == ~isna(a) /\ a[1] = 0
FAbs(a) == IF isna(a) THEN NaN ELSE <<Abs(a[1]), a[2]>>

RECURSIVE FSum(_)
FSum(s) == IF s = <<>> THEN F(0) ELSE FAdd(Head(s), FSum(Tail(s)))

----------------------------------------------------------------------------
(* Calendar dates *)

date(y, m, d) == [year |-> y, month |-> m, day |-> d]

\* a missing date (NaT / None)
NaT == [year |-> 0, month |-> 0, day |-> 0]

IsLeap(y) == (y % 4 = 0) /\ ((y % 100 # 0) \/ (y % 400 = 0))

DaysInMonth(y, m) ==
    IF m = 2 THEN (IF IsLeap(y) THEN 29 ELSE 28)
    ELSE IF m \in {4, 6, 9, 11} THEN 30 ELSE 31

RECURSIVE DaysBeforeMonth(_, _)
DaysBeforeMonth(y, m) ==
    IF m = 1 THEN 0 ELSE DaysBeforeMonth(y, m - 1) + DaysInMonth(y, m - 1)

\* date.toordinal(): days since 0001-01-01, that day being 1
toordinal(d) ==
    LET y == d.year - 1
    IN  y * 365 + (y \div 4) - (y \div 100) + (y \div 400)
        + DaysBeforeMonth(d.year, d.month) + d.day

DateLt(a, b) ==
    \/ a.year < b.year
    \/ a.year = b.year /\ a.month < b.month
    \/ a.year = b.year /\ a.month = b.month /\ a.day < b.day
DateLe(a, b) == a = b \/ DateLt(a, b)

month_start(d) == date(d.year, d.month, 1)

\* abs((pd.Timestamp(d1) - pd.Timestamp(d2)).days)
days_between(d1, d2) == Abs(toordinal(d1) - toordinal(d2))

----------------------------------------------------------------------------
(* Index construction *)

\* ascending order of a set of dates (groupby keys, then sort_values("Month"))
RECURSIVE SortDates(_)
SortDates(S) ==
    IF S = {} THEN <<>>
    ELSE LET lo == CHOOSE x \in S : \A y \in S : DateLe(x, y)
         IN  <<lo>> \o SortDates(S \ {lo})

\* ascending order of a sequence of floats
RECURSIVE SortFloats(_)
SortFloats(s) ==
    IF s = <<>> THEN <<>>
    ELSE LET i == CHOOSE i \in DOMAIN s : \A j \in DOMAIN s : FLe(s[i], s[j])
         IN  <<s[i]>> \o SortFloats(SubSeq(s, 1, i - 1) \o SubSeq(s, i + 1, Len(s)))

\* mutant: the middle of the values as supplied, without sorting them
median_unsorted(s) ==
    LET n == Len(s)
    IN  IF n = 0 THEN NaN
        ELSE IF n % 2 = 1 THEN s[(n + 1) \div 2]
        ELSE FDiv(FAdd(s[n \div 2], s[n \div 2 + 1]), F(2))

\* Series.median(): the middle value, or the mean of the two middle values
median(s) ==
    LET o == SortFloats(s)
        n == Len(o)
    IN  IF n = 0 THEN NaN
        ELSE IF n % 2 = 1 THEN o[(n + 1) \div 2]
        ELSE FDiv(FAdd(o[n \div 2], o[n \div 2 + 1]), F(2))

\* df.dropna(subset=["ContractDate", "SoldPrice"])
dropna(df) == SelectSeq(df, LAMBDA r : r.ContractDate # NaT /\ ~isna(r.SoldPrice))

\* mutant: every bucket takes the prices of all rows
MonthPrices_all_rows(d, mo) ==
    LET rows == SelectSeq(d, LAMBDA r : TRUE)
    IN  [i \in 1..Len(rows) |-> rows[i].SoldPrice]

\* SoldPrice of the rows of one month, in row order
MonthPrices(d, mo) ==
    LET rows == SelectSeq(d, LAMBDA r : month_start(r.ContractDate) = mo)
    IN  [i \in 1..Len(rows) |-> rows[i].SoldPrice]

\* mutant: the months with fewer sales than the minimum are left out
monthly_buckets_without_thin(df, min_sales_per_month) ==
    LET d      == dropna(df)
        months == SortDates({month_start(d[i].ContractDate) : i \in DOMAIN d})
        all    == [i \in 1..Len(months) |->
                      LET p == MonthPrices(d, months[i])
                      IN  [Month       |-> months[i],
                           SalesCount  |-> Len(p),
                           MedianPrice |-> median(p),
                           ThinMonth   |-> Len(p) < min_sales_per_month]]
    IN  SelectSeq(all, LAMBDA b : ~b.ThinMonth)

\* groupby("Month").agg(SalesCount=size, MedianPrice=median).sort_values("Month")
\* and the ThinMonth column
monthly_buckets(df, min_sales_per_month) ==
    LET d      == dropna(df)
        months == SortDates({month_start(d[i].ContractDate) : i \in DOMAIN d})
    IN  [i \in 1..Len(months) |->
            LET p == MonthPrices(d, months[i])
            IN  [Month       |-> months[i],
                 SalesCount  |-> Len(p),
                 MedianPrice |-> median(p),
                 ThinMonth   |-> Len(p) < min_sales_per_month]]

\* mutant: the base period set to 100 instead of 1.00
base_index_100 == <<100, 1>>

\* Index_Raw of the first bucket
base_index == <<1, 1>>

\* mutant: the month-over-month ratio is stored without chaining it
chain_link_unchained(prev_index, prev, cur) ==
    IF isna(prev) \/ FIsZero(prev) \/ isna(cur)
    THEN prev_index
    ELSE FDiv(cur, prev)

\* mutant: the guard against a zero previous median is missing
chain_link_unguarded(prev_index, prev, cur) ==
    IF isna(prev) \/ isna(cur)
    THEN prev_index
    ELSE FMul(prev_index, FDiv(cur, prev))

\* one step of the chain: Index_Raw[i] from Index_Raw[i-1] and the two medians
chain_link(prev_index, prev, cur) ==
    IF isna(prev) \/ FIsZero(prev) \/ isna(cur)
    THEN prev_index
    ELSE FMul(prev_index, FDiv(cur, prev))

\* the Index_Raw column of buckets 1..i
RECURSIVE chain_index(_, _)
chain_index(m, i) ==
    IF i = 0 THEN <<>>
    ELSE IF i = 1 THEN <<base_index>>
    ELSE LET before == chain_index(m, i - 1)
         IN  Append(before,
                    chain_link(before[i - 1], m[i - 1].MedianPrice, m[i].MedianPrice))

build_monthly_index_price(df, min_sales_per_month) ==
    LET m   == monthly_buckets(df, min_sales_per_month)
        raw == chain_index(m, Len(m))
    IN  [i \in 1..Len(m) |->
            [Month       |-> m[i].Month,
             SalesCount  |-> m[i].SalesCount,
             MedianPrice |-> m[i].MedianPrice,
             ThinMonth   |-> m[i].ThinMonth,
             Index_Raw   |-> raw[i]]]

\* mutant: the window is clamped at 1
clamp_window_at_one(smooth_window) == IF smooth_window < 1 THEN 1 ELSE smooth_window

\* w = max(2, int(smooth_window))
clamp_window(smooth_window) == IF smooth_window < 2 THEN 2 ELSE smooth_window

\* mutant: the window trails the row instead of being centered on it
rolling_window_trailing(i, n, w) ==
    {j \in 1..n : i - w + 1 <= j /\ j <= i}

\* rows of the centered rolling window of width w around row i of n rows:
\* pandas' fixed window ends at i + (w - 1) // 2 and holds w rows
rolling_window(i, n, w) ==
    LET hi == i + ((w - 1) \div 2)
        lo == hi - w + 1
    IN  {j \in 1..n : lo <= j /\ j <= hi}

\* rolling(window=w, center=True, min_periods=1).mean() at row i
rolling_mean(y, i, w) ==
    LET win  == rolling_window(i, Len(y), w)
        obs  == SelectSeq([j \in 1..Len(y) |-> IF j \in win THEN y[j] ELSE NaN],
                          LAMBDA v : ~isna(v))
    IN  IF Len(obs) < 1 THEN NaN ELSE FDiv(FSum(obs), F(Len(obs)))

\* np.polyfit(x, y, 1) on the finite points: <<slope, intercept>>, x = 0, 1, ...
polyfit1(y) ==
    LET pts == {j \in 1..Len(y) : ~isna(y[j])}
        n   == F(Cardinality(pts))
        xs  == [j \in 1..Len(y) |-> IF j \in pts THEN F(j - 1) ELSE F(0)]
        ys  == [j \in 1..Len(y) |-> IF j \in pts THEN y[j] ELSE F(0)]
        sx  == FSum(xs)
        sy  == FSum(ys)
        sxx == FSum([j \in 1..Len(y) |-> FMul(xs[j], xs[j])])
        sxy == FSum([j \in 1..Len(y) |-> FMul(xs[j], ys[j])])
        slope == FDiv(FSub(FMul(n, sxy), FMul(sx, sy)),
                      FSub(FMul(n, sxx), FMul(sx, sx)))
    IN  <<slope, FDiv(FSub(sy, FMul(slope, sx)), n)>>

add_smoothed_and_regression(idx, smooth_window) ==
    LET w    == clamp_window(smooth_window)
        y    == [i \in 1..Len(idx) |-> idx[i].Index_Raw]
        sm   == [i \in 1..Len(idx) |-> rolling_mean(y, i, w)]
        fit  == Len(idx) >= 2 /\ Cardinality({j \in 1..Len(y) : ~isna(y[j])}) >= 2
        coef == polyfit1(y)
    IN  [i \in 1..Len(idx) |->
            [Month            |-> idx[i].Month,
             SalesCount       |-> idx[i].SalesCount,
             MedianPrice      |-> idx[i].MedianPrice,
             ThinMonth        |-> idx[i].ThinMonth,
             Index_Raw        |-> idx[i].Index_Raw,
             Index_Smoothed   |-> sm[i],
             Index_Regression |-> IF fit
                                  THEN FAdd(FMul(coef[1], F(i - 1)), coef[2])
                                  ELSE sm[i]]]

build_index_cached(df, min_sales, smooth_window) ==
    add_smoothed_and_regression(build_monthly_index_price(df, min_sales), smooth_window)

\* mutant: the memo table is keyed without the smoothing window
cache_key_without_window(contract_dates, sold_prices, min_sales, smooth_window) ==
    <<contract_dates, sold_prices, min_sales, 0>>

\* st.cache_data keys an entry by the values of the four arguments
cache_key(contract_dates, sold_prices, min_sales, smooth_window) ==
    <<contract_dates, sold_prices, min_sales, smooth_window>>

\* df[column].to_numpy()
to_numpy(df, column) == [i \in 1..Len(df) |-> df[i][column]]

\* what a call of the memoized function returns with the memo table cache:
\* the stored value of the key if there is one, the freshly built series if not
cached_call(cache, df, min_sales, smooth_window) ==
    LET k   == cache_key(to_numpy(df, "ContractDate"), to_numpy(df, "SoldPrice"),
                         min_sales, smooth_window)
        hit == {e \in cache : e.key = k}
    IN  IF hit # {}
        THEN [hit |-> TRUE, key |-> k, value |-> (CHOOSE e \in hit : TRUE).value]
        ELSE [hit |-> FALSE, key |-> k,
              value |-> build_index_cached(df, min_sales, smooth_window)]

----------------------------------------------------------------------------
(* Index lookup *)

\* index_df[index_df["Month"] == m]
month_rows(idx, m) == SelectSeq(idx, LAMBDA b : b.Month = m)

\* index_df[index_df["Month"] <= m]
prior_rows(idx, m) == SelectSeq(idx, LAMBDA b : DateLe(b.Month, m))

\* stable ascending sort of buckets by Month (sort_values("Month"))
RECURSIVE SortByMonth(_)
SortByMonth(s) ==
    IF s = <<>> THEN <<>>
    ELSE LET i == CHOOSE i \in DOMAIN s :
                     /\ \A j \in DOMAIN s : DateLe(s[i].Month, s[j].Month)
                     /\ \A j \in 1..(i - 1) : s[j].Month # s[i].Month
         IN  <<s[i]>> \o SortByMonth(SubSeq(s, 1, i - 1) \o SubSeq(s, i + 1, Len(s)))

\* mutant: the exact match compares Month with the target date itself
lookup_index_no_month_start(idx, target_date, index_col) ==
    IF idx = <<>> \/ target_date = NaT
    THEN [value |-> NaN, month |-> NaT, mode |-> "no_index"]
    ELSE LET m   == month_start(target_date)
             row == month_rows(idx, target_date)
         IN  IF row # <<>>
             THEN [value |-> row[1][index_col], month |-> m, mode |-> "exact"]
             ELSE LET prior == SortByMonth(prior_rows(idx, m))
                  IN  IF prior = <<>>
                      THEN [value |-> NaN, month |-> NaT, mode |-> "no_prior"]
                      ELSE [value |-> prior[Len(prior)][index_col],
                            month |-> prior[Len(prior)].Month,
                            mode  |-> "prior"]

\* mutant: the fallback takes the earliest prior bucket, not the latest
lookup_index_first_prior(idx, target_date, index_col) ==
    IF idx = <<>> \/ target_date = NaT
    THEN [value |-> NaN, month |-> NaT, mode |-> "no_index"]
    ELSE LET m   == month_start(target_date)
             row == month_rows(idx, m)
         IN  IF row # <<>>
             THEN [value |-> row[1][index_col], month |-> m, mode |-> "exact"]
             ELSE LET prior == SortByMonth(prior_rows(idx, m))
                  IN  IF prior = <<>>
                      THEN [value |-> NaN, month |-> NaT, mode |-> "no_prior"]
                      ELSE [value |-> prior[1][index_col],
                            month |-> prior[1].Month,
                            mode  |-> "prior"]

\* mutant: the test for an empty series is missing
lookup_index_no_empty_test(idx, target_date, index_col) ==
    IF target_date = NaT
    THEN [value |-> NaN, month |-> NaT, mode |-> "no_index"]
    ELSE LET m   == month_start(target_date)
             row == month_rows(idx, m)
         IN  IF row # <<>>
             THEN [value |-> row[1][index_col], month |-> m, mode |-> "exact"]
             ELSE LET prior == SortByMonth(prior_rows(idx, m))
                  IN  IF prior = <<>>
                      THEN [value |-> NaN, month |-> NaT, mode |-> "no_prior"]
                      ELSE [value |-> prior[Len(prior)][index_col],
                            month |-> prior[Len(prior)].Month,
                            mode  |-> "prior"]

lookup_index(idx, target_date, index_col) ==
    IF idx = <<>> \/ target_date = NaT
    THEN [value |-> NaN, month |-> NaT, mode |-> "no_index"]
    ELSE LET m   == month_start(target_date)
             row == month_rows(idx, m)
         IN  IF row # <<>>
             THEN [value |-> row[1][index_col], month |-> m, mode |-> "exact"]
             ELSE LET prior == SortByMonth(prior_rows(idx, m))
                  IN  IF prior = <<>>
                      THEN [value |-> NaN, month |-> NaT, mode |-> "no_prior"]
                      ELSE [value |-> prior[Len(prior)][index_col],
                            month |-> prior[Len(prior)].Month,
                            mode  |-> "prior"]

----------------------------------------------------------------------------
(* Outlier diagnostics *)

\* Series.quantile(q), linear interpolation between the two nearest order
\* statistics; missing values are skipped
quantile(s, q) ==
    LET o   == SortFloats(SelectSeq(s, LAMBDA v : ~isna(v)))
        n   == Len(o)
        pos == FMul(F(n - 1), q)
        lo  == pos[1] \div pos[2]
    IN  IF n = 0 THEN NaN
        ELSE IF lo + 1 >= n THEN o[n]
        ELSE FAdd(o[lo + 1], FMul(FSub(pos, F(lo)), FSub(o[lo + 2], o[lo + 1])))

\* mutant: a price on a bound is flagged too
iqr_bounds_flags_inclusive(s, q1, q3, k) ==
    LET lo == FSub(q1, FMul(k, FSub(q3, q1)))
        hi == FAdd(q3, FMul(k, FSub(q3, q1)))
    IN  [i \in 1..Len(s) |-> FLe(s[i], lo) \/ FLe(hi, s[i])]

\* mutant: the bounds are 100 * k away from the quartiles, not k * iqr
iqr_bounds_flags_absolute(s, q1, q3, k) ==
    LET lo == FSub(q1, FMul(k, F(100)))
        hi == FAdd(q3, FMul(k, F(100)))
    IN  [i \in 1..Len(s) |-> FLt(s[i], lo) \/ FLt(hi, s[i])]

\* (s < lo) | (s > hi) for lo = q1 - k * iqr, hi = q3 + k * iqr
iqr_bounds_flags(s, q1, q3, k) ==
    LET lo == FSub(q1, FMul(k, FSub(q3, q1)))
        hi == FAdd(q3, FMul(k, FSub(q3, q1)))
    IN  [i \in 1..Len(s) |-> FLt(s[i], lo) \/ FLt(hi, s[i])]

compute_iqr_flags_cached(sold_prices, k) ==
    iqr_bounds_flags(sold_prices, quantile(sold_prices, <<1, 4>>),
                     quantile(sold_prices, <<3, 4>>), k)

\* fewest valid records the regression is run on
min_regression_records == 6

\* np.log(np.maximum(1.0, price)) in units of ln 2: exact where the price is a
\* power of two or at most 1, which are the prices the regression is run on
\* here; Leverage, the studentized residual and Cook's distance are ratios
\* that do not depend on the unit
RECURSIVE log_price(_)
log_price(price) ==
    IF FLe(price, F(1)) THEN 0 ELSE 1 + log_price(FDiv(price, F(2)))

\* elapsed days since the earliest contract date
elapsed_days(out) ==
    LET t0 == CHOOSE t \in {toordinal(out[i].ContractDate) : i \in DOMAIN out} :
                  \A i \in DOMAIN out : t <= toordinal(out[i].ContractDate)
    IN  [i \in DOMAIN out |-> F(toordinal(out[i].ContractDate) - t0)]

log_prices(out) == [i \in DOMAIN out |-> F(log_price(out[i].SoldPrice))]

\* beta = inv(X'X) X'y for X = [1, x]; when X'X is singular all x are 0 and
\* pinv(X'X) = [[1/n, 0], [0, 0]]
ols_solve(n, sx, sy, sxx, sxy, det) ==
    IF FIsZero(det)
    THEN [n |-> n, sx |-> sx, sxx |-> sxx, det |-> det,
          b0 |-> FDiv(sy, n), b1 |-> F(0)]
    ELSE [n |-> n, sx |-> sx, sxx |-> sxx, det |-> det,
          b0 |-> FDiv(FSub(FMul(sxx, sy), FMul(sx, sxy)), det),
          b1 |-> FDiv(FSub(FMul(n, sxy), FMul(sx, sy)), det)]

ols_sums(n, sx, sy, sxx, sxy) ==
    ols_solve(n, sx, sy, sxx, sxy, FSub(FMul(n, sxx), FMul(sx, sx)))

ols_fit(x, y) ==
    ols_sums(F(Len(x)), FSum(x), FSum(y),
             FSum([i \in DOMAIN x |-> FMul(x[i], x[i])]),
             FSum([i \in DOMAIN x |-> FMul(x[i], y[i])]))

\* resid = y - X beta
residuals(fit, x, y) ==
    [i \in DOMAIN x |-> FSub(y[i], FAdd(fit.b0, FMul(fit.b1, x[i])))]

\* H = diag(X inv(X'X) X')
leverage(fit, x) ==
    [i \in DOMAIN x |->
        IF FIsZero(fit.det)
        THEN FDiv(F(1), fit.n)
        ELSE FDiv(FAdd(FSub(fit.sxx, FMul(F(2), FMul(x[i], fit.sx))),
                       FMul(fit.n, FMul(x[i], x[i]))),
                  fit.det)]

\* Cook's distance of one record; eps = 1e-12 only keeps the two divisions
\* defined: where mse or 1 - H is zero the residual is zero and so is the
\* product
cooks_d(r, h, mse) ==
    IF FIsZero(r) THEN F(0)
    ELSE FMul(FDiv(FMul(r, r), FMul(F(2), mse)),
              FDiv(h, FMul(FSub(F(1), h), FSub(F(1), h))))

\* studentized > 2.0 for studentized = |r| / resid_std, resid_std the
\* population standard deviation of the residuals, or 1.0 when that is 0;
\* compared in squares
price_deviation_flag(r, variance) ==
    IF FLt(F(0), variance)
    THEN FLt(FMul(F(4), variance), FMul(r, r))
    ELSE FLt(F(2), FAbs(r))

\* np.sum(resid ** 2) / max(1, n - p), p = 2
mean_squared_error(r) ==
    FDiv(FSum([i \in DOMAIN r |-> FMul(r[i], r[i])]),
         F(IF Len(r) - 2 < 1 THEN 1 ELSE Len(r) - 2))

\* np.std(resid) ** 2
residual_variance(r) ==
    FSub(FDiv(FSum([i \in DOMAIN r |-> FMul(r[i], r[i])]), F(Len(r))),
         FMul(FDiv(FSum(r), F(Len(r))), FDiv(FSum(r), F(Len(r)))))

\* one row of the table with the columns of the regression rule
cooks_row(row, lev, cd, high_leverage, high_cooks) ==
    [RowID        |-> row.RowID,
     ContractDate |-> row.ContractDate,
     SoldPrice    |-> row.SoldPrice,
     IQR_Outlier  |-> row.IQR_Outlier,
     Leverage     |-> lev,
     CooksD       |-> cd,
     HighLeverage |-> high_leverage,
     HighCooksD   |-> high_cooks]

\* mutant: a record is flagged for its leverage, above 2p/n
cooks_columns_leverage_rule(out, r, h, mse, variance) ==
    [i \in DOMAIN out |->
        cooks_row(out[i], h[i], cooks_d(r[i], h[i], mse),
                  FLt(FDiv(F(4), F(Len(out))), h[i]),
                  FLt(FDiv(F(4), F(Len(out))), cooks_d(r[i], h[i], mse)))]

\* Leverage, CooksD and the two flags of every record (lines 984-990)
cooks_columns(out, r, h, mse, variance) ==
    [i \in DOMAIN out |->
        cooks_row(out[i], h[i], cooks_d(r[i], h[i], mse),
                  price_deviation_flag(r[i], variance),
                  FLt(FDiv(F(4), F(Len(out))), cooks_d(r[i], h[i], mse)))]

cooks_residuals(out, r, h) ==
    cooks_columns(out, r, h, mean_squared_error(r), residual_variance(r))

cooks_fitted(out, x, y, fit) ==
    cooks_residuals(out, residuals(fit, x, y), leverage(fit, x))

cooks_regression(out, x, y) == cooks_fitted(out, x, y, ols_fit(x, y))

\* mutant: the regression is run on any number of records
cooks_valid_rows_no_minimum(out) ==
    IF Len(out) < 1
    THEN [i \in DOMAIN out |-> cooks_row(out[i], NaN, NaN, FALSE, FALSE)]
    ELSE cooks_regression(out, elapsed_days(out), log_prices(out))

\* the rule on the records that have date and price
cooks_valid_rows(out) ==
    IF Len(out) < min_regression_records
    THEN [i \in DOMAIN out |-> cooks_row(out[i], NaN, NaN, FALSE, FALSE)]
    ELSE cooks_regression(out, elapsed_days(out), log_prices(out))

cooks_distance_time_regression(df) == cooks_valid_rows(dropna(df))

\* " + ".join(reasons)
RECURSIVE join_reasons(_)
join_reasons(reasons) ==
    IF reasons = <<>> THEN ""
    ELSE IF Len(reasons) = 1 THEN reasons[1]
    ELSE reasons[1] \o " + " \o join_reasons(Tail(reasons))

\* _flag_reason: the names of the rules that flagged the record
flag_reason(r) ==
    join_reasons((IF r.IQR_Outlier THEN <<"IQR">> ELSE <<>>)
                 \o (IF r.HighLeverage THEN <<"Price Dev">> ELSE <<>>)
                 \o (IF r.HighCooksD THEN <<"Cook's D">> ELSE <<>>))

\* mutant: the overall flag leaves Cook's distance out
overall_flag_without_cooks(r) == r.IQR_Outlier \/ r.HighLeverage

\* Flagged = IQR_Outlier | HighLeverage | HighCooksD
overall_flag(r) == r.IQR_Outlier \/ r.HighLeverage \/ r.HighCooksD

\* the Flagged and FlagReason columns
with_flagged(rows) ==
    [i \in DOMAIN rows |->
        [RowID        |-> rows[i].RowID,
         ContractDate |-> rows[i].ContractDate,
         SoldPrice    |-> rows[i].SoldPrice,
         IQR_Outlier  |-> rows[i].IQR_Outlier,
         Leverage     |-> rows[i].Leverage,
         CooksD       |-> rows[i].CooksD,
         HighLeverage |-> rows[i].HighLeverage,
         HighCooksD   |-> rows[i].HighCooksD,
         Flagged      |-> overall_flag(rows[i]),
         FlagReason   |-> flag_reason(rows[i])]]

\* the IQR_Outlier column: the rule's flags, or False when the rule is off
with_iqr(df, use_iqr, iqr_multiplier) ==
    [i \in DOMAIN df |->
        [RowID        |-> df[i].RowID,
         ContractDate |-> df[i].ContractDate,
         SoldPrice    |-> df[i].SoldPrice,
         IQR_Outlier  |-> /\ use_iqr
                          /\ compute_iqr_flags_cached(
                                 [j \in DOMAIN df |-> df[j].SoldPrice], iqr_multiplier)[i]]]

\* the regression columns: the rule's, or False flags when the rule is off
\* (Leverage and CooksD are then absent, shown here as NaN)
with_cooks(rows, use_cooks) ==
    IF use_cooks
    THEN cooks_distance_time_regression(rows)
    ELSE [i \in DOMAIN rows |-> cooks_row(rows[i], NaN, NaN, FALSE, FALSE)]

\* "Run diagnostics" of step 3: the table df_f
run_diagnostics(df, use_iqr, iqr_multiplier, use_cooks) ==
    with_flagged(with_cooks(with_iqr(df, use_iqr, iqr_multiplier), use_cooks))

----------------------------------------------------------------------------
(* Adjustment calculator *)

\* mutant: an adjustment that cannot be computed is reported as 0
pct_change_zero_default(i_eff, i_contract) ==
    IF isna(i_eff) \/ isna(i_contract) \/ FIsZero(i_contract)
    THEN F(0)
    ELSE FSub(FDiv(i_eff, i_contract), F(1))

\* mutant: the ratio is taken the wrong way round
pct_change_inverted(i_eff, i_contract) ==
    IF isna(i_eff) \/ isna(i_contract) \/ FIsZero(i_contract) \/ FIsZero(i_eff)
    THEN NaN
    ELSE FSub(FDiv(i_contract, i_eff), F(1))

pct_change(i_eff, i_contract) ==
    IF isna(i_eff) \/ isna(i_contract) \/ FIsZero(i_contract)
    THEN NaN
    ELSE FSub(FDiv(i_eff, i_contract), F(1))

\* default threshold of categorize_adjustment: 0.5
category_threshold == <<1, 2>>

\* mutant: an adjustment on the threshold already counts as a trend
categorize_adjustment_inclusive(adj_pct, threshold) ==
    IF isna(adj_pct) THEN "N/A"
    ELSE IF FLe(threshold, adj_pct) THEN "Increasing"
    ELSE IF FLe(adj_pct, FSub(F(0), threshold)) THEN "Declining"
    ELSE "Stable"

categorize_adjustment(adj_pct, threshold) ==
    IF isna(adj_pct) THEN "N/A"
    ELSE IF FLt(threshold, adj_pct) THEN "Increasing"
    ELSE IF FLt(adj_pct, FSub(F(0), threshold)) THEN "Declining"
    ELSE "Stable"

\* default threshold of adjustment_direction: 0.1
direction_threshold == <<1, 10>>

\* mutant: an adjustment of the threshold's magnitude has no direction yet
adjustment_direction_inclusive(adj_pct, threshold) ==
    IF isna(adj_pct) \/ FLe(FAbs(adj_pct), threshold) THEN "NO ADJUSTMENT"
    ELSE IF FLt(F(0), adj_pct) THEN "UPWARD"
    ELSE "DOWNWARD"

adjustment_direction(adj_pct, threshold) ==
    IF isna(adj_pct) \/ FLt(FAbs(adj_pct), threshold) THEN "NO ADJUSTMENT"
    ELSE IF FLt(F(0), adj_pct) THEN "UPWARD"
    ELSE "DOWNWARD"

\* the index column the report reads for an "Index Type" choice
math_col(index_option) ==
    IF index_option = "Raw Chain-Linked" THEN "Index_Raw"
    ELSE IF index_option = "Regression Trendline" THEN "Index_Regression"
    ELSE "Index_Smoothed"

\* mutant: the effective index is always read from the raw column
effective_lookup_raw(idx, eff, col) == lookup_index(idx, eff, "Index_Raw")

\* the index value of the effective date
effective_lookup(idx, eff, col) == lookup_index(idx, eff, col)

\* the index value of a comparable's contract date
contract_lookup(idx, contract_date, col) == lookup_index(idx, contract_date, col)

\* mutant: a comparable exactly no_adj_days away is not adjusted
applied_adj_strict(days_from_effective, no_adj_days) == days_from_effective > no_adj_days

\* AppliedAdj of a comparable
applied_adj(days_from_effective, no_adj_days) == days_from_effective >= no_adj_days

\* mutant: the no-adjustment window is not applied
gate_adjustment_off(applied, value) == value

\* MktAdjPct and MktAdj$ after the no-adjustment window is applied
gate_adjustment(applied, value) == IF applied THEN value ELSE F(0)

\* one row of the adjustment table, for comparable r
comp_row(r, idx, col, eff, eff_index, no_adj_days) ==
    LET ic      == contract_lookup(idx, r.ContractDate, col).value
        days    == days_between(r.ContractDate, eff)
        applied == applied_adj(days, no_adj_days)
        rawpct  == FMul(pct_change(eff_index, ic), F(100))
        rawdol  == FMul(r.SoldPrice, FDiv(rawpct, F(100)))
        adjpct  == gate_adjustment(applied, rawpct)
    IN  [RowID             |-> r.RowID,
         ContractDate      |-> r.ContractDate,
         SalePrice         |-> r.SoldPrice,
         Index_Contract    |-> ic,
         Index_Effective   |-> eff_index,
         MktAdjPct         |-> adjpct,
         MktAdjDollar      |-> gate_adjustment(applied, rawdol),
         Category          |-> categorize_adjustment(adjpct, category_threshold),
         Direction         |-> adjustment_direction(adjpct, direction_threshold),
         AppliedAdj        |-> applied,
         DaysFromEffective |-> days]

\* stable ascending sort of rows by ContractDate
RECURSIVE SortByContractDate(_)
SortByContractDate(s) ==
    IF s = <<>> THEN <<>>
    ELSE LET i == CHOOSE i \in DOMAIN s :
                     /\ \A j \in DOMAIN s : DateLe(s[i].ContractDate, s[j].ContractDate)
                     /\ \A j \in 1..(i - 1) : s[j].ContractDate # s[i].ContractDate
         IN  <<s[i]>> \o SortByContractDate(SubSeq(s, 1, i - 1) \o SubSeq(s, i + 1, Len(s)))

----------------------------------------------------------------------------
(* The application: session state and the script run of each step *)

\* st.session_state["uploaded_data"] is None
NoData == <<[RowID |-> -1, ContractDate |-> NaT, SoldPrice |-> NaN]>>

\* settings at session start
default_settings ==
    [no_adj_days         |-> 90,
     index_option        |-> "Smoothed (Recommended)",
     smooth_window       |-> 6,
     min_sales_per_month |-> 5,
     use_iqr             |-> TRUE,
     iqr_multiplier      |-> F(1),
     use_cooks           |-> FALSE]

\* lookback of the overall trend for trend_lookback = "1 Year"
lookback_months == 12

\* pd.to_datetime(eff) - pd.DateOffset(months=k), for k a multiple of 12
months_before(eff, k) ==
    LET y == eff.year - (k \div 12)
        dim == DaysInMonth(y, eff.month)
    IN  date(y, eff.month, IF eff.day > dim THEN dim ELSE eff.day)

\* the overall-trend block divides by the first index of the lookback window
\* as a Python float: a zero there raises ZeroDivisionError and ends the run
trend_raises(idx, col, eff) ==
    /\ Len(idx) >= 2
    /\ LET start == months_before(eff, lookback_months)
           lb    == SelectSeq(idx, LAMBDA b : DateLe(start, b.Month))
           first == IF Len(lb) >= 2 THEN lb[1][col] ELSE idx[1][col]
       IN  FIsZero(first)

\* nothing of step 5 was rendered by the last run
NoReport ==
    [shown |-> FALSE, raised |-> FALSE, rows |-> <<>>,
     eff_index |-> NaN, eff_month_used |-> NaT, eff_mode |-> "none",
     math_col |-> "none"]

\* mutant: the rows kept for the model are numbered again from 0
model_rows_renumbered(data, excluded) ==
    LET kept == SelectSeq(data, LAMBDA r : r.RowID \notin excluded)
    IN  [i \in 1..Len(kept) |-> [kept[i] EXCEPT !.RowID = i - 1]]

\* mutant: the exclusion set is not applied
model_rows_keep_all(data, excluded) == data

\* df_model: the uploaded rows that are not excluded
model_rows(data, excluded) == SelectSeq(data, LAMBDA r : r.RowID \notin excluded)

\* the ContractDate and SoldPrice columns handed to the index builder
index_input(df_model) ==
    [i \in 1..Len(df_model) |->
        [ContractDate |-> df_model[i].ContractDate,
         SoldPrice    |-> df_model[i].SoldPrice]]

\* the selected comparables among the rows of df_model
model_comps(df_model, selected) == SelectSeq(df_model, LAMBDA r : r.RowID \in selected)

\* the adjustment table "out" and the figures shown with it, once the index
\* and the effective-date lookup e are at hand
report_out(df_model, idx, col, e, selected, stg, eff) ==
    IF trend_raises(idx, col, eff)
    THEN [NoReport EXCEPT !.shown = TRUE, !.raised = TRUE]
    ELSE [shown |-> TRUE, raised |-> FALSE,
          rows  |-> SortByContractDate(
                      [i \in 1..Len(model_comps(df_model, selected)) |->
                          comp_row(model_comps(df_model, selected)[i], idx, col, eff,
                                   e.value, stg.no_adj_days)]),
          eff_index |-> e.value, eff_month_used |-> e.month, eff_mode |-> e.mode,
          math_col |-> col]

\* the step-5 run from the index on: math column and effective-date lookup
report_index(df_model, idx, col, selected, stg, eff) ==
    report_out(df_model, idx, col, effective_lookup(idx, eff, col), selected, stg, eff)

\* the step-5 run: index, effective index, and the adjustment table "out"
report_step(data, excluded, selected, stg, eff) ==
    report_index(model_rows(data, excluded),
                 build_index_cached(index_input(model_rows(data, excluded)),
                                    stg.min_sales_per_month, stg.smooth_window),
                 math_col(stg.index_option), selected, stg, eff)

\* what a script run renders for the session state it ends in
render(st, data, excluded, selected, stg, eff) ==
    IF st = 5 /\ data # NoData
    THEN report_step(data, excluded, selected, stg, eff)
    ELSE NoReport

----------------------------------------------------------------------------
(* Inputs of the model *)

\* most rows of an uploaded file or of a directly built record set
MaxSales == 3
MaxUpload == 2

\* date.today() when the session starts
Today == date(2024, 4, 14)

EffDates == {date(2023, 12, 31), date(2024, 4, 13), Today}

SaleDates  == {date(2024, 1, 15), date(2024, 2, 10), date(2024, 4, 20)}
SalePrices == {F(0), F(100), F(300)}

\* rows handed to the index builder: clean rows, a row without a price and a
\* row without a date
SaleRows ==
    [ContractDate : SaleDates, SoldPrice : SalePrices]
    \cup {[ContractDate |-> date(2024, 2, 10), SoldPrice |-> NaN],
          [ContractDate |-> NaT, SoldPrice |-> F(100)]}

\* rows of the series that lookups are tried on: clean rows and a row without
\* a price
LookupRows ==
    [ContractDate : SaleDates, SoldPrice : {F(100), F(300)}]
    \cup {[ContractDate |-> date(2024, 2, 10), SoldPrice |-> NaN]}

LookupTargets ==
    {date(2023, 12, 31), date(2024, 2, 1), date(2024, 2, 28), date(2024, 3, 9),
     date(2024, 5, 2), NaT}

IndexColumns == {"Index_Raw", "Index_Smoothed", "Index_Regression"}

MinSalesChoices == {1, 2}
SmoothChoices   == {2, 3}

\* smooth_window arguments of a direct call: values of the slider (2 to 4) and
\* values below its range
SmoothWindows == {-1, 0, 1, 2, 3, 4}

\* rows of the series that smoothing is tried on
SmoothRows ==
    [ContractDate : SaleDates, SoldPrice : {F(100), F(300)}]
    \cup {[ContractDate |-> date(2024, 2, 10), SoldPrice |-> F(0)]}

\* parsed rows of an uploaded CSV, before the rows without date or price are dropped
UploadRows ==
    {[ContractDate |-> date(2024, 1, 15), SoldPrice |-> F(200)],
     [ContractDate |-> date(2024, 4, 2),  SoldPrice |-> F(0)],
     [ContractDate |-> date(2024, 4, 2),  SoldPrice |-> F(300)],
     [ContractDate |-> date(2024, 4, 2),  SoldPrice |-> NaN]}

\* most prices handed to compute_iqr_flags_cached
MaxPrices == 5

IqrRows == [ContractDate : {date(2024, 1, 15)},
            SoldPrice : {F(0), F(100), F(200), F(1000)}]

\* values of the "IQR Multiplier" slider
IqrMultipliers == {F(1), <<3, 2>>, F(3)}

\* positive constants the prices are scaled by
ScaleFactors == {<<1, 2>>, F(3)}

\* most records of a table the diagnostics are run on
MaxRecords == 6

\* records the diagnostics are run on: two days, prices that are powers of
\* two, and a record without a price
DiagRecords ==
    <<[ContractDate |-> date(2024, 1, 15), SoldPrice |-> F(1)],
      [ContractDate |-> date(2024, 1, 15), SoldPrice |-> F(2)],
      [ContractDate |-> date(2024, 1, 15), SoldPrice |-> F(16)],
      [ContractDate |-> date(2024, 1, 16), SoldPrice |-> F(1)],
      [ContractDate |-> date(2024, 1, 16), SoldPrice |-> F(2)],
      [ContractDate |-> date(2024, 1, 16), SoldPrice |-> F(16)],
      [ContractDate |-> date(2024, 1, 16), SoldPrice |-> NaN]>>

\* the non-decreasing sequences of length k over 1..m
RECURSIVE SortedSeqs(_, _)
SortedSeqs(m, k) ==
    IF k = 0 THEN {<<>>}
    ELSE UNION {{Append(q, j) : j \in (IF q = <<>> THEN 1 ELSE q[Len(q)])..m} :
                   q \in SortedSeqs(m, k - 1)}

\* the tables of at most n records of rows, one for each choice of records:
\* the order of the rows enters the diagnostics only as the position of a
\* record's result
RecordSets(rows, n) ==
    UNION {{[i \in 1..k |-> rows[q[i]]] : q \in SortedSeqs(Len(rows), k)} : k \in 0..n}

\* most records of the upload a session starts the diagnostics step with
MaxStored == 4

SessionRows ==
    <<[ContractDate |-> date(2024, 1, 15), SoldPrice |-> F(100)],
      [ContractDate |-> date(2024, 4, 2),  SoldPrice |-> F(900)]>>

\* percent adjustments that are labelled: the multiples of 0.05 up to AdjSteps
\* of them either side of 0, and an undefined one
AdjSteps == 60

AdjValues == {Frac(n, 20) : n \in (0 - AdjSteps)..AdjSteps} \cup {NaN}

FilterOptions == {"All Records", "Flagged Only", "Excluded Only"}
IndexOptions == {"Smoothed (Recommended)", "Raw Chain-Linked", "Regression Trendline"}
NoAdjDaysChoices == {0, 90}

SeqsUpTo(S, n) == UNION {[1..k -> S] : k \in 0..n}

----------------------------------------------------------------------------
(* Report history *)

\* most reports the history file keeps
max_reports == 50

\* str(d) of a date, the ISO text "YYYY-MM-DD", as its three numbers
isoformat(d) == <<d.year, d.month, d.day>>

\* date.fromisoformat(s)
fromisoformat(s) == date(s[1], s[2], s[3])

\* "uploaded_data_csv" of a report saved without data: None
NoCsv == <<>>

\* a CSV text that pd.read_csv cannot parse
UnreadableCsv == <<[RowID |-> -1, ContractDate |-> <<0, 0, 0>>, SoldPrice |-> NaN]>>

\* df.to_csv(index=False): the dates are written as ISO text
to_csv(data) ==
    IF data = NoData THEN NoCsv
    ELSE [i \in DOMAIN data |->
             [RowID        |-> data[i].RowID,
              ContractDate |-> isoformat(data[i].ContractDate),
              SoldPrice    |-> data[i].SoldPrice]]

\* pd.read_csv of the saved text and the conversion of its date column;
\* None when the text is missing or cannot be parsed
read_csv(csv) ==
    IF csv = NoCsv \/ csv = UnreadableCsv THEN NoData
    ELSE [i \in DOMAIN csv |->
             [RowID        |-> csv[i].RowID,
              ContractDate |-> fromisoformat(csv[i].ContractDate),
              SoldPrice    |-> csv[i].SoldPrice]]

\* "id" of a new report: the time of the save to the microsecond, which no
\* stored report carries; modelled as the least number no stored report has
fresh_id(history) ==
    CHOOSE n \in 1..(Len(history) + 1) :
        /\ \A i \in DOMAIN history : history[i].id # n
        /\ \A m \in 1..(n - 1) : \E i \in DOMAIN history : history[i].id = m

\* the report_data that save_report_to_history serializes
report_data(history, address, eff, stg, excluded, selected, data) ==
    [id                |-> fresh_id(history),
     subject_address   |-> address,
     eff_date          |-> isoformat(eff),
     settings          |-> stg,
     excluded_rowids   |-> excluded,
     selected_comps    |-> selected,
     uploaded_data_csv |-> to_csv(data)]

\* positions of the stored reports with the address and date of report r
same_report(history, r) ==
    {i \in DOMAIN history : /\ history[i].subject_address = r.subject_address
                            /\ history[i].eff_date = r.eff_date}

\* history[:50]
keep_newest(history) ==
    SubSeq(history, 1, IF Len(history) < max_reports THEN Len(history) ELSE max_reports)

\* mutant: the report always goes to the front, a stored one of the same
\* address and date stays
store_report_at_front(history, r) ==
    keep_newest(<<r>> \o history)

\* the stored list after report r is saved: the first report of the same
\* address and date is replaced, else r goes to the front
store_report(history, r) ==
    keep_newest(IF same_report(history, r) # {}
                THEN [history EXCEPT ![CHOOSE i \in same_report(history, r) :
                                          \A j \in same_report(history, r) : i <= j] = r]
                ELSE <<r>> \o history)

save_report_to_history(history, address, eff, stg, excluded, selected, data) ==
    store_report(history,
                 report_data(history, address, eff, stg, excluded, selected, data))

delete_report_from_history(history, report_id) ==
    SelectSeq(history, LAMBDA r : r.id # report_id)

\* calls of the two history functions in one run
MaxEdits == 3

\* the step load_report_from_history leaves the session at
loaded_step(data, selected) ==
    IF data # NoData /\ selected # {} THEN 5
    ELSE IF data # NoData THEN 3
    ELSE 1

----------------------------------------------------------------------------
(* Session start *)

\* a history file that holds no report and cannot be written: the save of
\* the step-5 run raises and the run goes on without it
ReadOnlyHistory == [writable |-> FALSE, reports |-> <<>>]

\* the session state a new session starts with
FreshSession ==
    /\ step = 1
    /\ subject_address = ""
    /\ eff_date = Today
    /\ uploaded_data = NoData
    /\ diagnostics_df = "None"
    /\ excluded_rowids = {}
    /\ selected_comps = {}
    /\ settings = default_settings
    /\ filter_opt = "All Records"
    /\ report = NoReport

AppInit ==
    /\ FreshSession
    /\ history_file = ReadOnlyHistory

\* no call of compute_iqr_flags_cached was made yet
NoIqr == [k |-> NaN, c |-> NaN, flags |-> <<>>, scaled_flags |-> <<>>]

\* no diagnostics run was called yet
NoDiag == [use_iqr |-> FALSE, iqr_multiplier |-> NaN, use_cooks |-> FALSE]

\* the memo table before the first call
NoCache == {}

\* no percent adjustment was labelled yet
NoLabels == [adj_pct |-> NaN, category |-> "none", direction |-> "none"]

NoLookup == [target |-> NaT, col |-> "none", value |-> NaN, month |-> NaT, mode |-> "none"]

CallIdle ==
    /\ pc = "start"
    /\ in_df = <<>>
    /\ in_min_sales = 0
    /\ in_smooth = 0
    /\ index_df = <<>>
    /\ lk = NoLookup
    /\ iqr = NoIqr
    /\ in_diag = NoDiag
    /\ df_f = <<>>
    /\ index_cache = NoCache
    /\ labels = NoLabels
    /\ calls = 0

Init == AppInit /\ CallIdle

\* every script run ends by rendering the step the session state is in
\* and drops the state of the widgets it did not render
Render ==
    /\ report' = render(step', uploaded_data', excluded_rowids', selected_comps',
                        settings', eff_date')
    /\ filter_opt' = IF step' = 3 THEN filter_opt ELSE "All Records"

\* the history file h after a script run: the run of step 5 begins by saving
\* the session, before it takes the values of the analysis widgets into the
\* settings; a save that raises is passed over
saved_by_run(h) ==
    IF step' = 5 /\ h.writable
    THEN [h EXCEPT !.reports =
             save_report_to_history(h.reports, subject_address', eff_date',
                                    IF step = 5 THEN settings ELSE settings',
                                    excluded_rowids', selected_comps', uploaded_data')]
    ELSE h

\* the script run that ends an action
Rerun ==
    /\ Render
    /\ history_file' = saved_by_run(history_file)

RowIDs(data) == IF data = NoData THEN {} ELSE {data[i].RowID : i \in DOMAIN data}

----------------------------------------------------------------------------
(* Header and step bar *)

\* "Start Over": every key is deleted and the next run initialises the session
StartOver ==
    /\ step' = 1
    /\ subject_address' = ""
    /\ eff_date' = Today
    /\ uploaded_data' = NoData
    /\ diagnostics_df' = "None"
    /\ excluded_rowids' = {}
    /\ selected_comps' = {}
    /\ settings' = default_settings
    /\ Rerun
    /\ UNCHANGED callVars

Max(a, b) == IF a >= b THEN a ELSE b

max_step ==
    LET m1 == IF subject_address # "" THEN 2 ELSE 1
        m2 == IF uploaded_data # NoData THEN Max(m1, 3) ELSE m1
        m3 == IF diagnostics_df # "None" THEN Max(m2, 4) ELSE m2
    IN  IF selected_comps # {} THEN Max(m3, 5) ELSE m3

\* a click on step step_num of the step bar
StepNav(step_num) ==
    /\ step_num <= max_step
    /\ step_num # step
    /\ step' = step_num
    /\ UNCHANGED <<subject_address, eff_date, uploaded_data, diagnostics_df,
                   excluded_rowids, selected_comps, settings>>
    /\ Rerun
    /\ UNCHANGED callVars

----------------------------------------------------------------------------
(* Step 1: subject property *)

Step1Next(address, eff) ==
    /\ step = 1
    /\ address # ""
    /\ subject_address' = address
    /\ eff_date' = eff
    /\ step' = 2
    /\ UNCHANGED <<uploaded_data, diagnostics_df, excluded_rowids, selected_comps, settings>>
    /\ Rerun
    /\ UNCHANGED callVars

\* "Open" of the i-th report of the "Recent Reports" list:
\* load_report_from_history, then a rerun
HistoryOpen(i) ==
    /\ step = 1
    /\ i \in DOMAIN history_file.reports
    /\ LET r == history_file.reports[i]
       IN  /\ subject_address' = r.subject_address
           /\ eff_date' = fromisoformat(r.eff_date)
           /\ settings' = r.settings
           /\ excluded_rowids' = r.excluded_rowids
           /\ selected_comps' = r.selected_comps
           /\ uploaded_data' = read_csv(r.uploaded_data_csv)
    /\ step' = loaded_step(uploaded_data', selected_comps')
    /\ UNCHANGED diagnostics_df
    /\ Rerun
    /\ UNCHANGED callVars

\* the delete button of the i-th report of the list:
\* delete_report_from_history, then a rerun
HistoryDelete(i) ==
    /\ step = 1
    /\ i \in DOMAIN history_file.reports
    /\ history_file.writable
    /\ history_file' =
          [history_file EXCEPT !.reports =
              delete_report_from_history(history_file.reports,
                                         history_file.reports[i].id)]
    /\ UNCHANGED <<step, subject_address, eff_date, uploaded_data, diagnostics_df,
                   excluded_rowids, selected_comps, settings>>
    /\ Render
    /\ UNCHANGED callVars

----------------------------------------------------------------------------
(* Step 2: upload *)

\* the cleaned upload: rows with date and price, RowID = position from 0
clean_upload(file) ==
    LET ok == dropna(file)
    IN  [i \in 1..Len(ok) |->
            [RowID |-> i - 1, ContractDate |-> ok[i].ContractDate, SoldPrice |-> ok[i].SoldPrice]]

\* a file is chosen in the uploader: the run parses it and stores the clean rows
Step2Upload(file) ==
    /\ step = 2
    /\ clean_upload(file) # <<>>
    /\ uploaded_data' = clean_upload(file)
    /\ UNCHANGED <<step, subject_address, eff_date, diagnostics_df,
                   excluded_rowids, selected_comps, settings>>
    /\ Rerun
    /\ UNCHANGED callVars

Step2Next ==
    /\ step = 2
    /\ uploaded_data # NoData
    /\ step' = 3
    /\ UNCHANGED <<subject_address, eff_date, uploaded_data, diagnostics_df,
                   excluded_rowids, selected_comps, settings>>
    /\ Rerun
    /\ UNCHANGED callVars

Step2Back ==
    /\ step = 2
    /\ step' = 1
    /\ UNCHANGED <<subject_address, eff_date, uploaded_data, diagnostics_df,
                   excluded_rowids, selected_comps, settings>>
    /\ Rerun
    /\ UNCHANGED callVars

----------------------------------------------------------------------------
(* Step 3: diagnostics and exclusions *)

\* points clicked on the scatter plot: each toggles its record's exclusion
Step3TogglePoints(points) ==
    /\ step = 3
    /\ uploaded_data # NoData
    /\ points # {}
    /\ excluded_rowids' = (excluded_rowids \ points) \cup (points \ excluded_rowids)
    /\ UNCHANGED <<step, subject_address, eff_date, uploaded_data, diagnostics_df,
                   selected_comps, settings>>
    /\ Rerun
    /\ UNCHANGED callVars

\* the X button of one entry of the "Excluded Properties" list
Step3Restore(row_id) ==
    /\ step = 3
    /\ uploaded_data # NoData
    /\ row_id \in excluded_rowids
    /\ row_id \in RowIDs(uploaded_data)
    /\ excluded_rowids' = excluded_rowids \ {row_id}
    /\ UNCHANGED <<step, subject_address, eff_date, uploaded_data, diagnostics_df,
                   selected_comps, settings>>
    /\ Rerun
    /\ UNCHANGED callVars

Step3ClearAll ==
    /\ step = 3
    /\ uploaded_data # NoData
    /\ excluded_rowids # {}
    /\ excluded_rowids' = {}
    /\ UNCHANGED <<step, subject_address, eff_date, uploaded_data, diagnostics_df,
                   selected_comps, settings>>
    /\ Rerun
    /\ UNCHANGED callVars

Step3Back ==
    /\ step = 3
    /\ uploaded_data # NoData
    /\ step' = 2
    /\ UNCHANGED <<subject_address, eff_date, uploaded_data, diagnostics_df,
                   excluded_rowids, selected_comps, settings>>
    /\ Rerun
    /\ UNCHANGED callVars

\* the table df_f of the step-3 run
session_diagnostics ==
    run_diagnostics(uploaded_data, settings.use_iqr, settings.iqr_multiplier,
                    settings.use_cooks)

\* RowIDs of the flagged rows of a diagnostics table
flagged_ids(table) == {table[i].RowID : i \in {j \in DOMAIN table : table[j].Flagged}}

\* RowIDs of the rows the data editor shows under the chosen filter
editor_rows(table) ==
    IF filter_opt = "Flagged Only"
    THEN flagged_ids(table)
    ELSE IF filter_opt = "Excluded Only"
    THEN RowIDs(table) \cap excluded_rowids
    ELSE RowIDs(table)

\* a choice in the "Show:" radio
Step3SetFilter(choice) ==
    /\ step = 3
    /\ uploaded_data # NoData
    /\ choice # filter_opt
    /\ filter_opt' = choice
    /\ report' = NoReport
    /\ UNCHANGED <<step, subject_address, eff_date, uploaded_data, diagnostics_df,
                   excluded_rowids, selected_comps, settings, history_file>>
    /\ UNCHANGED callVars

\* the checkboxes and the slider of "Diagnostic Settings"; the slider shows
\* only while the IQR rule is on, and the multiplier is 1.0 while it is off
Step3SetDiagnostics(use_iqr, iqr_multiplier, use_cooks) ==
    /\ step = 3
    /\ uploaded_data # NoData
    /\ ~use_iqr => iqr_multiplier = F(1)
    /\ settings' = [settings EXCEPT !.use_iqr = use_iqr,
                                    !.iqr_multiplier = iqr_multiplier,
                                    !.use_cooks = use_cooks]
    /\ settings' # settings
    /\ UNCHANGED <<step, subject_address, eff_date, uploaded_data, diagnostics_df,
                   excluded_rowids, selected_comps>>
    /\ Rerun
    /\ UNCHANGED callVars

\* "Remove All Outliers": offered while a flagged record is not excluded
Step3RemoveAllOutliers ==
    /\ step = 3
    /\ uploaded_data # NoData
    /\ flagged_ids(session_diagnostics) \ excluded_rowids # {}
    /\ excluded_rowids' = excluded_rowids \cup flagged_ids(session_diagnostics)
    /\ UNCHANGED <<step, subject_address, eff_date, uploaded_data, diagnostics_df,
                   selected_comps, settings>>
    /\ Rerun
    /\ UNCHANGED callVars

\* "Apply & Next": the exclusion set becomes the rows ticked in the editor
Step3ApplyNext ==
    /\ step = 3
    /\ uploaded_data # NoData
    /\ \E ticked \in SUBSET editor_rows(session_diagnostics) :
          excluded_rowids' = ticked
    /\ diagnostics_df' = "df"
    /\ step' = 4
    /\ UNCHANGED <<subject_address, eff_date, uploaded_data, selected_comps, settings>>
    /\ Rerun
    /\ UNCHANGED callVars

----------------------------------------------------------------------------
(* Step 4: comparables *)

\* options of the comparables multiselect
comp_options == RowIDs(model_rows(uploaded_data, excluded_rowids))

\* the multiselect renders only when its default is among its options
Step4Rendered ==
    /\ step = 4
    /\ uploaded_data # NoData
    /\ comp_options # {}
    /\ selected_comps \subseteq comp_options

\* a non-empty choice in the multiselect is stored
Step4Select(selected) ==
    /\ Step4Rendered
    /\ selected # {}
    /\ selected \subseteq comp_options
    /\ selected_comps' = selected
    /\ UNCHANGED <<step, subject_address, eff_date, uploaded_data, diagnostics_df,
                   excluded_rowids, settings>>
    /\ Rerun
    /\ UNCHANGED callVars

Step4Generate ==
    /\ Step4Rendered
    /\ selected_comps # {}
    /\ step' = 5
    /\ UNCHANGED <<subject_address, eff_date, uploaded_data, diagnostics_df,
                   excluded_rowids, selected_comps, settings>>
    /\ Rerun
    /\ UNCHANGED callVars

\* "Back", also offered when every record is excluded
Step4Back ==
    /\ step = 4
    /\ uploaded_data # NoData
    /\ comp_options = {} \/ Step4Rendered
    /\ step' = 3
    /\ UNCHANGED <<subject_address, eff_date, uploaded_data, diagnostics_df,
                   excluded_rowids, selected_comps, settings>>
    /\ Rerun
    /\ UNCHANGED callVars

----------------------------------------------------------------------------
(* Step 5: report *)

\* the analysis widgets and the Back button render only with a non-empty table
Step5Rendered == step = 5 /\ report.shown /\ report.rows # <<>>

Step5SetIndexOption(index_option) ==
    /\ Step5Rendered
    /\ settings' = [settings EXCEPT !.index_option = index_option]
    /\ UNCHANGED <<step, subject_address, eff_date, uploaded_data, diagnostics_df,
                   excluded_rowids, selected_comps>>
    /\ Rerun
    /\ UNCHANGED callVars

Step5SetNoAdjDays(no_adj_days) ==
    /\ Step5Rendered
    /\ settings' = [settings EXCEPT !.no_adj_days = no_adj_days]
    /\ UNCHANGED <<step, subject_address, eff_date, uploaded_data, diagnostics_df,
                   excluded_rowids, selected_comps>>
    /\ Rerun
    /\ UNCHANGED callVars

Step5Back ==
    /\ Step5Rendered
    /\ step' = 4
    /\ UNCHANGED <<subject_address, eff_date, uploaded_data, diagnostics_df,
                   excluded_rowids, selected_comps, settings>>
    /\ Rerun
    /\ UNCHANGED callVars

----------------------------------------------------------------------------
(* Direct calls of the engine *)

BuildIndex(min_sales, smooth_window) ==
    /\ pc = "start"
    /\ in_min_sales' = min_sales
    /\ in_smooth' = smooth_window
    /\ index_df' = build_index_cached(in_df, min_sales, smooth_window)
    /\ pc' = "built"
    /\ UNCHANGED <<in_df, lk, iqr, in_diag, df_f, index_cache, labels, calls>>
    /\ UNCHANGED appVars

Lookup(target_date, index_col) ==
    /\ pc = "built"
    /\ lk' = LET r == lookup_index(index_df, target_date, index_col)
             IN  [target |-> target_date, col |-> index_col,
                  value |-> r.value, month |-> r.month, mode |-> r.mode]
    /\ pc' = "looked"
    /\ UNCHANGED <<in_df, in_min_sales, in_smooth, index_df, iqr, in_diag, df_f,
                   index_cache, labels, calls>>
    /\ UNCHANGED appVars

\* the SoldPrice column
sold_prices(df) == [i \in DOMAIN df |-> df[i].SoldPrice]

\* the rows with a RowID by position, as the upload assigns it
record_table(df) ==
    [i \in DOMAIN df |->
        [RowID |-> i - 1, ContractDate |-> df[i].ContractDate, SoldPrice |-> df[i].SoldPrice]]

\* compute_iqr_flags_cached on the prices, and on the prices times c
IqrFlags(k, c) ==
    /\ pc = "start"
    /\ iqr' = [k |-> k, c |-> c,
               flags |-> compute_iqr_flags_cached(sold_prices(in_df), k),
               scaled_flags |->
                   compute_iqr_flags_cached(
                       [i \in DOMAIN in_df |-> FMul(in_df[i].SoldPrice, c)], k)]
    /\ pc' = "flagged"
    /\ UNCHANGED <<in_df, in_min_sales, in_smooth, index_df, lk, in_diag, df_f,
                   index_cache, labels, calls>>
    /\ UNCHANGED appVars

\* the diagnostics of step 3 on a record table
RunDiagnostics(use_iqr, iqr_multiplier, use_cooks) ==
    /\ pc = "start"
    /\ ~use_iqr => iqr_multiplier = F(1)
    /\ in_diag' = [use_iqr |-> use_iqr, iqr_multiplier |-> iqr_multiplier,
                   use_cooks |-> use_cooks]
    /\ df_f' = run_diagnostics(record_table(in_df), use_iqr, iqr_multiplier, use_cooks)
    /\ pc' = "diagnosed"
    /\ UNCHANGED <<in_df, in_min_sales, in_smooth, index_df, lk, iqr,
                   index_cache, labels, calls>>
    /\ UNCHANGED appVars

\* categorize_adjustment and adjustment_direction with their default
\* thresholds, as the report applies them to MktAdjPct
Label(adj_pct) ==
    /\ pc = "start"
    /\ labels' = [adj_pct   |-> adj_pct,
                  category  |-> categorize_adjustment(adj_pct, category_threshold),
                  direction |-> adjustment_direction(adj_pct, direction_threshold)]
    /\ pc' = "labelled"
    /\ UNCHANGED <<in_df, in_min_sales, in_smooth, index_df, lk, iqr, in_diag, df_f,
                   index_cache, calls>>
    /\ UNCHANGED appVars

\* save_report_to_history(st.session_state) called directly for a session of
\* the given address and effective date
SaveReport(address, eff) ==
    /\ calls < MaxEdits
    /\ calls' = calls + 1
    /\ subject_address' = address
    /\ eff_date' = eff
    /\ history_file' =
          [history_file EXCEPT !.reports =
              save_report_to_history(history_file.reports, address, eff, settings,
                                     excluded_rowids, selected_comps, uploaded_data)]
    /\ pc' = "saved"
    /\ UNCHANGED <<step, uploaded_data, diagnostics_df, excluded_rowids, selected_comps,
                   settings, filter_opt, report>>
    /\ UNCHANGED <<in_df, in_min_sales, in_smooth, index_df, lk, iqr, in_diag, df_f,
                   index_cache, labels>>

\* delete_report_from_history(report_id) called directly
DeleteReport(report_id) ==
    /\ calls < MaxEdits
    /\ calls' = calls + 1
    /\ history_file' =
          [history_file EXCEPT !.reports =
              delete_report_from_history(history_file.reports, report_id)]
    /\ pc' = "deleted"
    /\ UNCHANGED <<step, subject_address, eff_date, uploaded_data, diagnostics_df,
                   excluded_rowids, selected_comps, settings, filter_opt, report>>
    /\ UNCHANGED <<in_df, in_min_sales, in_smooth, index_df, lk, iqr, in_diag, df_f,
                   index_cache, labels>>

\* calls of the memoized function in one run
MaxBuilds == 4

\* one call of the memoized build_index_cached, as steps 4 and 5 make it
CallBuildIndexCached(df, min_sales, smooth_window) ==
    LET r == cached_call(index_cache, df, min_sales, smooth_window)
    IN  /\ calls < MaxBuilds
        /\ calls' = calls + 1
        /\ in_df' = df
        /\ in_min_sales' = min_sales
        /\ in_smooth' = smooth_window
        /\ index_df' = r.value
        /\ index_cache' = IF r.hit THEN index_cache
                          ELSE index_cache \cup {[key |-> r.key, value |-> r.value]}
        /\ pc' = IF r.hit THEN "hit" ELSE "miss"
        /\ UNCHANGED <<lk, iqr, in_diag, df_f, labels>>
        /\ UNCHANGED appVars

----------------------------------------------------------------------------
(* Specifications *)

Next ==
    \/ StartOver
    \/ \E n \in 1..5 : StepNav(n)
    \/ \E e \in EffDates : Step1Next("123 Main Street", e)
    \/ \E f \in SeqsUpTo(UploadRows, MaxUpload) : Step2Upload(f)
    \/ Step2Next
    \/ Step2Back
    \/ \E pts \in SUBSET RowIDs(uploaded_data) : Step3TogglePoints(pts)
    \/ \E rid \in excluded_rowids : Step3Restore(rid)
    \/ Step3ClearAll
    \/ Step3Back
    \/ \E f \in FilterOptions : Step3SetFilter(f)
    \/ Step3ApplyNext
    \/ \E sel \in SUBSET RowIDs(uploaded_data) : Step4Select(sel)
    \/ Step4Generate
    \/ Step4Back
    \/ \E o \in IndexOptions : Step5SetIndexOption(o)
    \/ \E n \in NoAdjDaysChoices : Step5SetNoAdjDays(n)
    \/ Step5Back

\* the application, driven by its user
Spec == Init /\ [][Next]_vars

InitIndex ==
    /\ AppInit
    /\ pc = "start"
    /\ in_df \in SeqsUpTo(SaleRows, MaxSales)
    /\ in_min_sales = 0
    /\ in_smooth = 0
    /\ index_df = <<>>
    /\ lk = NoLookup
    /\ iqr = NoIqr
    /\ in_diag = NoDiag
    /\ df_f = <<>>
    /\ index_cache = NoCache
    /\ labels = NoLabels
    /\ calls = 0

NextIndex == \E ms \in MinSalesChoices : \E sw \in SmoothChoices : BuildIndex(ms, sw)

\* build_index_cached on every record set of at most MaxSales rows
SpecIndex == InitIndex /\ [][NextIndex]_vars

InitSmooth ==
    /\ AppInit
    /\ pc = "start"
    /\ in_df \in SeqsUpTo(SmoothRows, MaxSales)
    /\ in_min_sales = 0
    /\ in_smooth = 0
    /\ index_df = <<>>
    /\ lk = NoLookup
    /\ iqr = NoIqr
    /\ in_diag = NoDiag
    /\ df_f = <<>>
    /\ index_cache = NoCache
    /\ labels = NoLabels
    /\ calls = 0

NextSmooth == \E ms \in MinSalesChoices : \E sw \in SmoothWindows : BuildIndex(ms, sw)

\* build_index_cached with every smoothing window of SmoothWindows
SpecSmooth == InitSmooth /\ [][NextSmooth]_vars

InitLookup ==
    /\ AppInit
    /\ pc = "start"
    /\ in_df \in SeqsUpTo(LookupRows, MaxSales)
    /\ in_min_sales = 0
    /\ in_smooth = 0
    /\ index_df = <<>>
    /\ lk = NoLookup
    /\ iqr = NoIqr
    /\ in_diag = NoDiag
    /\ df_f = <<>>
    /\ index_cache = NoCache
    /\ labels = NoLabels
    /\ calls = 0

NextLookup ==
    \/ \E ms \in MinSalesChoices : \E sw \in SmoothChoices : BuildIndex(ms, sw)
    \/ \E t \in LookupTargets : \E c \in IndexColumns : Lookup(t, c)

\* lookup_index on every series built from at most MaxSales rows
SpecLookup == InitLookup /\ [][NextLookup]_vars

\* a session that reached the diagnostics step with a larger upload stored
InitSession ==
    /\ step = 3
    /\ subject_address = "123 Main Street"
    /\ eff_date = Today
    /\ uploaded_data \in {clean_upload(f) : f \in RecordSets(SessionRows, MaxStored)} \ {<<>>}
    /\ diagnostics_df = "None"
    /\ excluded_rowids = {}
    /\ selected_comps = {}
    /\ settings = default_settings
    /\ filter_opt = "All Records"
    /\ report = NoReport
    /\ history_file = ReadOnlyHistory
    /\ CallIdle

NextSession ==
    \/ \E n \in 2..4 : StepNav(n)
    \/ Step2Next
    \/ \E u \in BOOLEAN : \E k \in {F(1), F(3)} : \E c \in BOOLEAN :
          Step3SetDiagnostics(u, k, c)
    \/ \E f \in FilterOptions : Step3SetFilter(f)
    \/ \E pts \in SUBSET RowIDs(uploaded_data) : Step3TogglePoints(pts)
    \/ Step3RemoveAllOutliers
    \/ \E rid \in excluded_rowids : Step3Restore(rid)
    \/ Step3ClearAll
    \/ Step3Back
    \/ Step3ApplyNext
    \/ \E rid \in RowIDs(uploaded_data) : Step4Select({rid})
    \/ Step4Back

\* the application from the diagnostics step on, with uploads on which the
\* outlier rules set flags
SpecSession == InitSession /\ [][NextSession]_vars

InitIqr ==
    /\ AppInit
    /\ pc = "start"
    /\ in_df \in SeqsUpTo(IqrRows, MaxPrices)
    /\ in_min_sales = 0
    /\ in_smooth = 0
    /\ index_df = <<>>
    /\ lk = NoLookup
    /\ iqr = NoIqr
    /\ in_diag = NoDiag
    /\ df_f = <<>>
    /\ index_cache = NoCache
    /\ labels = NoLabels
    /\ calls = 0

NextIqr == \E k \in IqrMultipliers : \E c \in ScaleFactors : IqrFlags(k, c)

\* compute_iqr_flags_cached on every price column of at most MaxPrices prices
SpecIqr == InitIqr /\ [][NextIqr]_vars

InitDiagnostics ==
    /\ AppInit
    /\ pc = "start"
    /\ in_df \in RecordSets(DiagRecords, MaxRecords)
    /\ in_min_sales = 0
    /\ in_smooth = 0
    /\ index_df = <<>>
    /\ lk = NoLookup
    /\ iqr = NoIqr
    /\ in_diag = NoDiag
    /\ df_f = <<>>
    /\ index_cache = NoCache
    /\ labels = NoLabels
    /\ calls = 0

NextDiagnostics ==
    \E u \in BOOLEAN : \E k \in {F(1), F(3)} : \E c \in BOOLEAN : RunDiagnostics(u, k, c)

\* the diagnostics run on every table of at most MaxRecords records
SpecDiagnostics == InitDiagnostics /\ [][NextDiagnostics]_vars

InitLabels == AppInit /\ CallIdle

NextLabels == \E a \in AdjValues : Label(a)

\* the two labelling functions on every percent adjustment of AdjValues
SpecLabels == InitLabels /\ [][NextLabels]_vars

\* record sets handed to the memoized function in the course of a session: an
\* upload, the same upload with one record excluded, and another upload with
\* the same prices on other dates
CachedTables ==
    {<<[ContractDate |-> date(2024, 1, 15), SoldPrice |-> F(100)],
       [ContractDate |-> date(2024, 2, 10), SoldPrice |-> F(300)],
       [ContractDate |-> date(2024, 4, 20), SoldPrice |-> F(100)]>>,
     <<[ContractDate |-> date(2024, 1, 15), SoldPrice |-> F(100)],
       [ContractDate |-> date(2024, 2, 10), SoldPrice |-> F(300)]>>,
     <<[ContractDate |-> date(2024, 1, 15), SoldPrice |-> F(100)],
       [ContractDate |-> date(2024, 4, 20), SoldPrice |-> F(300)],
       [ContractDate |-> date(2024, 4, 20), SoldPrice |-> F(100)]>>}

InitCache == AppInit /\ CallIdle

NextCache ==
    \E df \in CachedTables : \E ms \in MinSalesChoices : \E sw \in SmoothChoices :
        CallBuildIndexCached(df, ms, sw)

\* any sequence of calls of the memoized build_index_cached
SpecCache == InitCache /\ [][NextCache]_vars

\* the history files a run starts from: i reports of one address, the i-th
\* for the i-th of fifty effective dates, the newest first
StoredDate(i) == date(2024, 1 + ((i - 1) \div 28), 1 + ((i - 1) % 28))

StoredReport(i) ==
    [id                |-> i,
     subject_address   |-> "12 Elm St",
     eff_date          |-> isoformat(StoredDate(i)),
     settings          |-> default_settings,
     excluded_rowids   |-> {},
     selected_comps    |-> {},
     uploaded_data_csv |-> NoCsv]

StoredHistory(n) == [i \in 1..n |-> StoredReport(i)]

StoredLengths == {0, 1, max_reports - 1, max_reports}

SavedAddresses == {"12 Elm St", "9 Oak Ave"}
SavedDates     == {StoredDate(1), StoredDate(max_reports), date(2025, 1, 1)}
DeletedIds     == {1, max_reports, max_reports + 1}

InitStore ==
    /\ FreshSession
    /\ \E n \in StoredLengths :
          history_file = [writable |-> TRUE, reports |-> StoredHistory(n)]
    /\ CallIdle

NextStore ==
    \/ \E address \in SavedAddresses : \E eff \in SavedDates : SaveReport(address, eff)
    \/ \E report_id \in DeletedIds : DeleteReport(report_id)

\* any sequence of direct calls of save_report_to_history and
\* delete_report_from_history
SpecStore == InitStore /\ [][NextStore]_vars

\* the file uploaded in a session that has a history
HistoryUpload == <<[ContractDate |-> date(2024, 1, 15), SoldPrice |-> F(200)]>>

\* the reports of the history file such a session starts with: a report with
\* data and a comparable, and one with a comparable whose data cannot be read
\* back
ListedReports ==
    <<[StoredReport(1) EXCEPT !.selected_comps = {0},
                              !.uploaded_data_csv = to_csv(clean_upload(HistoryUpload))],
      [StoredReport(2) EXCEPT !.selected_comps = {0}, !.uploaded_data_csv = UnreadableCsv]>>

InitHistory ==
    /\ FreshSession
    /\ history_file = [writable |-> TRUE, reports |-> ListedReports]
    /\ CallIdle

NextHistory ==
    \/ StartOver
    \/ \E n \in 1..5 : StepNav(n)
    \/ Step1Next("12 Elm St", StoredDate(1))
    \/ Step2Upload(HistoryUpload)
    \/ Step2Next
    \/ Step2Back
    \/ Step3Back
    \/ Step3ApplyNext
    \/ \E sel \in SUBSET RowIDs(uploaded_data) : Step4Select(sel)
    \/ Step4Generate
    \/ Step4Back
    \/ Step5Back
    \/ \E i \in DOMAIN history_file.reports : HistoryOpen(i)
    \/ \E i \in DOMAIN history_file.reports : HistoryDelete(i)

\* the application with a history file, driven through its step bar, its
\* Next and Back buttons, Start Over and the history list
SpecHistory == InitHistory /\ [][NextHistory]_vars

----------------------------------------------------------------------------
(* Properties *)

\* the rows of the adjustment table the last run produced
Rows == report.rows

\* the index series the current session state yields at step 5
SessionIndex ==
    LET df_model == model_rows(uploaded_data, excluded_rowids)
    IN  build_index_cached([i \in 1..Len(df_model) |->
                               [ContractDate |-> df_model[i].ContractDate,
                                SoldPrice    |-> df_model[i].SoldPrice]],
                           settings.min_sales_per_month, settings.smooth_window)

Available(x) == ~isna(x)

\* C1: in every row of the adjustment table, AppliedAdj false implies that
\* MktAdjPct and MktAdj$ are exactly 0, whatever the two index values are.
C1_NotAppliedIsZero ==
    \A i \in DOMAIN Rows :
        ~Rows[i].AppliedAdj => Rows[i].MktAdjPct = F(0) /\ Rows[i].MktAdjDollar = F(0)

\* a row inside the no-adjustment window whose two index values differ
C1_Witness ==
    \E i \in DOMAIN Rows :
        /\ ~Rows[i].AppliedAdj
        /\ Available(Rows[i].Index_Contract) /\ Available(Rows[i].Index_Effective)
        /\ ~FIsZero(Rows[i].Index_Contract)
        /\ Rows[i].Index_Contract # Rows[i].Index_Effective
        /\ ~FIsZero(Rows[i].SalePrice)

\* whether the percent adjustment of a row cannot be computed
Uncomputable(r) ==
    isna(r.Index_Effective) \/ isna(r.Index_Contract) \/ FIsZero(r.Index_Contract)

\* C2 as claimed: a row whose effective or contract index is unavailable, or
\* whose contract index is zero, has an undefined percent adjustment, for every
\* no_adj_days and DaysFromEffective.
C2_Original ==
    \A i \in DOMAIN Rows : Uncomputable(Rows[i]) => isna(Rows[i].MktAdjPct)

\* C2 as amended: such a row has an undefined (N/A) percent and dollar
\* adjustment when AppliedAdj is true, and exactly 0 when AppliedAdj is false.
C2_UncomputableIsNaNWhenApplied ==
    \A i \in DOMAIN Rows :
        Uncomputable(Rows[i]) =>
            IF Rows[i].AppliedAdj
            THEN /\ isna(Rows[i].MktAdjPct)
                 /\ isna(Rows[i].MktAdjDollar)
                 /\ Rows[i].Category = "N/A"
            ELSE Rows[i].MktAdjPct = F(0)

\* an adjusted row whose contract index is exactly zero, next to an effective
\* index that is available
C2_Witness ==
    \E i \in DOMAIN Rows :
        /\ Rows[i].AppliedAdj
        /\ FIsZero(Rows[i].Index_Contract)
        /\ Available(Rows[i].Index_Effective)

BuiltSeries == pc # "start"

PositiveMedian(b) == FLt(F(0), b.MedianPrice)

\* C3: in a built series every bucket i > 1 whose own and whose predecessor's
\* median are positive has Index_Raw[i] = Index_Raw[i-1] * median[i] / median[i-1];
\* when all medians are positive, Index_Raw[i] = median[i] / median[1].
C3_ChainLinked ==
    BuiltSeries =>
        /\ \A i \in 2..Len(index_df) :
              PositiveMedian(index_df[i]) /\ PositiveMedian(index_df[i - 1]) =>
                  index_df[i].Index_Raw =
                      FDiv(FMul(index_df[i - 1].Index_Raw, index_df[i].MedianPrice),
                           index_df[i - 1].MedianPrice)
        /\ (\A i \in DOMAIN index_df : PositiveMedian(index_df[i])) =>
              \A i \in DOMAIN index_df :
                  index_df[i].Index_Raw =
                      FDiv(index_df[i].MedianPrice, index_df[1].MedianPrice)

\* a series of three buckets with positive medians whose index moves twice
C3_Witness ==
    /\ BuiltSeries
    /\ Len(index_df) = 3
    /\ \A i \in 1..3 : PositiveMedian(index_df[i])
    /\ index_df[2].Index_Raw # F(1)
    /\ index_df[3].Index_Raw # index_df[2].Index_Raw

\* C4: a record set with at least one record that has both a date and a price
\* gives a non-empty series whose first bucket has Index_Raw exactly 1.00, for
\* every min_sales_per_month.
C4_FirstBucketIsOne ==
    BuiltSeries /\ dropna(in_df) # <<>> =>
        /\ index_df # <<>>
        /\ index_df[1].Index_Raw = F(1)

\* a series of several buckets whose first median is not the smallest bucket's
C4_Witness ==
    /\ BuiltSeries
    /\ Len(index_df) >= 2
    /\ index_df[1].Index_Raw = F(1)
    /\ index_df[1].ThinMonth
    /\ FLt(index_df[2].MedianPrice, index_df[1].MedianPrice)

\* the buckets of the looked-up series whose Month is the target's month
TargetBuckets == {i \in DOMAIN index_df : index_df[i].Month = month_start(lk.target)}

\* C5: a lookup whose target month has a bucket returns that bucket's value in
\* the requested column, its month, and mode "exact"; the month and the mode
\* are the same for every column and every day of that month.
C5_ExactLookup ==
    pc = "looked" /\ lk.target # NaT /\ TargetBuckets # {} =>
        /\ lk.mode = "exact"
        /\ lk.month = month_start(lk.target)
        /\ \A i \in TargetBuckets : lk.value = index_df[i][lk.col]
        /\ \A c \in IndexColumns : \A d \in 1..DaysInMonth(lk.target.year, lk.target.month) :
              LET r == lookup_index(index_df, date(lk.target.year, lk.target.month, d), c)
              IN  /\ r.mode = "exact"
                  /\ r.month = lk.month
                  /\ \A i \in TargetBuckets : r.value = index_df[i][c]

\* an exact lookup late in a month, in a column that differs from the raw one
C5_Witness ==
    /\ pc = "looked"
    /\ lk.mode = "exact"
    /\ lk.target.day > 1
    /\ lk.col = "Index_Smoothed"
    /\ \E i \in TargetBuckets : lk.value # index_df[i].Index_Raw

\* the buckets of the looked-up series of a month before the target's month
EarlierBuckets == {i \in DOMAIN index_df : DateLt(index_df[i].Month, month_start(lk.target))}

\* C6: a lookup on a non-empty series whose target month has no bucket returns
\* the value of the latest bucket before the target month with mode "prior",
\* or, when there is none, NaN and no month with mode "no_prior".
C6_PriorLookup ==
    pc = "looked" /\ lk.target # NaT /\ index_df # <<>> /\ TargetBuckets = {} =>
        IF EarlierBuckets # {}
        THEN /\ lk.mode = "prior"
             /\ \E i \in EarlierBuckets :
                   /\ \A j \in EarlierBuckets : DateLe(index_df[j].Month, index_df[i].Month)
                   /\ lk.month = index_df[i].Month
                   /\ lk.value = index_df[i][lk.col]
        ELSE /\ lk.mode = "no_prior"
             /\ isna(lk.value)
             /\ lk.month = NaT

\* a fallback lookup in a gap: two earlier buckets and a later one, all with
\* other values than the bucket that is used
C6_Witness ==
    /\ pc = "looked"
    /\ lk.mode = "prior"
    /\ Cardinality(EarlierBuckets) = 2
    /\ Len(index_df) = 3
    /\ lk.value # index_df[1][lk.col]
    /\ lk.value # index_df[3][lk.col]
    /\ lk.value = index_df[2][lk.col]

\* C7: the effective index and every row's contract index are what lookup_index
\* gives on the session's series in the report's column; a row whose contract
\* date is in the effective date's month has Index_Contract = Index_Effective,
\* and MktAdjPct = 0 when that value is available and nonzero.
C7_SameLookupRule ==
    \A i \in DOMAIN Rows :
        /\ Rows[i].Index_Effective = report.eff_index
        /\ Rows[i].Index_Effective =
               lookup_index(SessionIndex, eff_date, math_col(settings.index_option)).value
        /\ Rows[i].Index_Contract =
               lookup_index(SessionIndex, Rows[i].ContractDate,
                            math_col(settings.index_option)).value
        /\ month_start(Rows[i].ContractDate) = month_start(eff_date) =>
              /\ Rows[i].Index_Contract = Rows[i].Index_Effective
              /\ Available(Rows[i].Index_Contract) /\ ~FIsZero(Rows[i].Index_Contract) =>
                    Rows[i].MktAdjPct = F(0)

\* an adjusted comparable of the effective date's month, on another day, in a
\* series whose smoothed and raw columns differ at that month
C7_Witness ==
    \E i \in DOMAIN Rows :
        /\ month_start(Rows[i].ContractDate) = month_start(eff_date)
        /\ Rows[i].ContractDate # eff_date
        /\ Rows[i].AppliedAdj
        /\ report.math_col = "Index_Smoothed"
        /\ Available(Rows[i].Index_Contract) /\ ~FIsZero(Rows[i].Index_Contract)
        /\ Rows[i].Index_Contract #
               lookup_index(SessionIndex, eff_date, "Index_Raw").value
        /\ Rows[i].MktAdjPct = F(0)

\* whole days between two dates, whichever is the earlier
DayDistance(a, b) ==
    IF DateLe(a, b) THEN toordinal(b) - toordinal(a) ELSE toordinal(a) - toordinal(b)

\* C8: DaysFromEffective is the number of whole days between contract date and
\* effective date, in either order, and AppliedAdj holds exactly when it is at
\* least no_adj_days; with no_adj_days = 0 every row is adjusted.
C8_DaysAndGate ==
    \A i \in DOMAIN Rows :
        /\ Rows[i].DaysFromEffective = DayDistance(Rows[i].ContractDate, eff_date)
        /\ Rows[i].DaysFromEffective >= 0
        /\ Rows[i].AppliedAdj <=> Rows[i].DaysFromEffective >= settings.no_adj_days
        /\ settings.no_adj_days = 0 => Rows[i].AppliedAdj

\* a comparable exactly no_adj_days > 0 away from the effective date
C8_Witness ==
    \E i \in DOMAIN Rows :
        /\ settings.no_adj_days > 0
        /\ Rows[i].DaysFromEffective = settings.no_adj_days
        /\ Rows[i].AppliedAdj

\* C9: an adjusted row with both index values available and a nonzero contract
\* index has MktAdjPct = (Index_Effective / Index_Contract - 1) * 100 and
\* MktAdj$ = SalePrice * MktAdjPct / 100; for a positive contract index the
\* percent adjustment has the sign of Index_Effective - Index_Contract.
C9_AdjustmentFormula ==
    \A i \in DOMAIN Rows :
        Rows[i].AppliedAdj /\ ~Uncomputable(Rows[i]) =>
            LET ie == Rows[i].Index_Effective
                ic == Rows[i].Index_Contract
            IN  /\ Rows[i].MktAdjPct = FDiv(FMul(F(100), FSub(ie, ic)), ic)
                /\ Rows[i].MktAdjDollar =
                       FDiv(FMul(Rows[i].SalePrice, Rows[i].MktAdjPct), F(100))
                /\ FLt(F(0), ic) =>
                      /\ FLt(F(0), Rows[i].MktAdjPct) <=> FLt(ic, ie)
                      /\ FLt(Rows[i].MktAdjPct, F(0)) <=> FLt(ie, ic)

\* an adjusted row with an upward adjustment that is no whole percent
C9_Witness ==
    \E i \in DOMAIN Rows :
        /\ Rows[i].AppliedAdj
        /\ FLt(F(0), Rows[i].MktAdjPct)
        /\ FLt(F(0), Rows[i].MktAdjDollar)
        /\ Rows[i].Index_Effective # F(1)
        /\ ~FIsZero(Rows[i].SalePrice)

\* C10: in a built series a bucket i > 1 whose predecessor's median is missing
\* or zero, or whose own median is missing, repeats Index_Raw[i-1]; no bucket
\* has an undefined Index_Raw.
C10_CarryForward ==
    BuiltSeries =>
        /\ \A i \in 2..Len(index_df) :
              (\/ isna(index_df[i - 1].MedianPrice)
               \/ FIsZero(index_df[i - 1].MedianPrice)
               \/ isna(index_df[i].MedianPrice)) =>
                  index_df[i].Index_Raw = index_df[i - 1].Index_Raw
        /\ \A i \in DOMAIN index_df : Available(index_df[i].Index_Raw)

\* a positive median after a zero median, after a move of the index
C10_Witness ==
    /\ BuiltSeries
    /\ Len(index_df) = 3
    /\ FIsZero(index_df[2].MedianPrice)
    /\ PositiveMedian(index_df[3])
    /\ index_df[3].Index_Raw = index_df[2].Index_Raw
    /\ index_df[2].Index_Raw # index_df[1].Index_Raw

\* C11: a record set without a record that has both a date and a price builds
\* an empty series, smoothing and regression of the empty series give the
\* empty series, and a lookup on the empty series returns NaN and no month
\* with mode "no_index" for every target date and every column.
C11_EmptySeries ==
    /\ BuiltSeries /\ dropna(in_df) = <<>> =>
          /\ build_monthly_index_price(in_df, in_min_sales) = <<>>
          /\ add_smoothed_and_regression(<<>>, in_smooth) = <<>>
          /\ index_df = <<>>
    /\ pc = "looked" /\ index_df = <<>> =>
          /\ lk.mode = "no_index"
          /\ isna(lk.value)
          /\ lk.month = NaT
          /\ \A t \in LookupTargets : \A c \in IndexColumns :
                lookup_index(index_df, t, c) =
                    [value |-> NaN, month |-> NaT, mode |-> "no_index"]

\* a lookup of a real date on the empty series built from a record set whose
\* only records lack a price
C11_Witness ==
    /\ pc = "looked"
    /\ in_df # <<>>
    /\ index_df = <<>>
    /\ lk.target # NaT
    /\ lk.mode = "no_index"

\* the positions of the input records that have both a date and a price
UsableRecords == {i \in DOMAIN in_df : in_df[i].ContractDate # NaT /\ ~isna(in_df[i].SoldPrice)}

\* the usable input records whose contract date lies in the month of first day m
RecordsOfMonth(m) ==
    {i \in UsableRecords : /\ in_df[i].ContractDate.year = m.year
                           /\ in_df[i].ContractDate.month = m.month}

RECURSIVE SumSalesCount(_)
SumSalesCount(idx) ==
    IF idx = <<>> THEN 0 ELSE Head(idx).SalesCount + SumSalesCount(Tail(idx))

\* C12: the built series has exactly one bucket for each calendar month that
\* holds a usable input record and none for any other month, its months are
\* strictly increasing, every SalesCount is at least 1 and counts the month's
\* records, and the SalesCount values sum to the number of usable records,
\* which is the number of input records when all of them have date and price.
C12_OneBucketPerMonth ==
    BuiltSeries =>
        /\ \A i \in UsableRecords : \E j \in DOMAIN index_df :
              i \in RecordsOfMonth(index_df[j].Month)
        /\ \A j \in DOMAIN index_df :
              /\ index_df[j].Month.day = 1
              /\ index_df[j].SalesCount >= 1
              /\ index_df[j].SalesCount = Cardinality(RecordsOfMonth(index_df[j].Month))
        /\ \A j \in 1..(Len(index_df) - 1) :
              DateLt(index_df[j].Month, index_df[j + 1].Month)
        /\ SumSalesCount(index_df) = Cardinality(UsableRecords)
        /\ (UsableRecords = DOMAIN in_df => SumSalesCount(index_df) = Len(in_df))

\* three usable records in February and April: two buckets around the empty
\* month of March, one of them holding two records
C12_Witness ==
    /\ BuiltSeries
    /\ Len(in_df) = 3
    /\ UsableRecords = DOMAIN in_df
    /\ Len(index_df) = 2
    /\ index_df[1].Month = date(2024, 2, 1)
    /\ index_df[2].Month = date(2024, 4, 1)
    /\ index_df[1].SalesCount = 2

\* values of min_sales_per_month the built series is compared under
MinSalesCompared == 1..(MaxSales + 1)

\* the columns of a bucket that min_sales_per_month must leave alone
SameButThin(a, b) ==
    /\ a.Month = b.Month
    /\ a.SalesCount = b.SalesCount
    /\ a.MedianPrice = b.MedianPrice
    /\ a.Index_Raw = b.Index_Raw
    /\ a.Index_Smoothed = b.Index_Smoothed
    /\ a.Index_Regression = b.Index_Regression

\* C13: ThinMonth is true exactly when SalesCount < min_sales_per_month, and
\* the series built from the same records under any other min_sales_per_month
\* has the same months, counts, medians and index values: no thin month is
\* removed or skipped in the chain.
C13_MinSalesOnlyFlags ==
    BuiltSeries =>
        /\ \A i \in DOMAIN index_df :
              index_df[i].ThinMonth <=> (index_df[i].SalesCount < in_min_sales)
        /\ \A ms \in MinSalesCompared :
              LET other == build_index_cached(in_df, ms, in_smooth)
              IN  /\ Len(other) = Len(index_df)
                  /\ \A i \in DOMAIN index_df : SameButThin(index_df[i], other[i])
        /\ \A i \in 2..Len(index_df) :
              PositiveMedian(index_df[i]) /\ PositiveMedian(index_df[i - 1]) =>
                  index_df[i].Index_Raw =
                      FMul(index_df[i - 1].Index_Raw,
                           FDiv(index_df[i].MedianPrice, index_df[i - 1].MedianPrice))

\* a thin month between its neighbours: it stays in the series and moves the
\* index, and the month after it is chained to it
C13_Witness ==
    /\ BuiltSeries
    /\ in_min_sales = 2
    /\ Len(index_df) = 2
    /\ ~index_df[1].ThinMonth
    /\ index_df[2].ThinMonth
    /\ index_df[2].Index_Raw # index_df[1].Index_Raw

\* the reason label of a record under each combination of its rule flags
ExpectedReason(r) ==
    CASE  r.IQR_Outlier /\  r.HighLeverage /\  r.HighCooksD -> "IQR + Price Dev + Cook's D"
      []  r.IQR_Outlier /\  r.HighLeverage /\ ~r.HighCooksD -> "IQR + Price Dev"
      []  r.IQR_Outlier /\ ~r.HighLeverage /\  r.HighCooksD -> "IQR + Cook's D"
      []  r.IQR_Outlier /\ ~r.HighLeverage /\ ~r.HighCooksD -> "IQR"
      [] ~r.IQR_Outlier /\  r.HighLeverage /\  r.HighCooksD -> "Price Dev + Cook's D"
      [] ~r.IQR_Outlier /\  r.HighLeverage /\ ~r.HighCooksD -> "Price Dev"
      [] ~r.IQR_Outlier /\ ~r.HighLeverage /\  r.HighCooksD -> "Cook's D"
      [] ~r.IQR_Outlier /\ ~r.HighLeverage /\ ~r.HighCooksD -> ""

\* C14: in the diagnostics table a record is Flagged exactly when one of
\* IQR_Outlier, HighLeverage and HighCooksD is set, its FlagReason names
\* exactly the set rules joined by " + " in the order IQR, Price Dev,
\* Cook's D, so Flagged holds exactly when FlagReason is not empty, and a
\* rule that is switched off sets no flag.
C14_FlaggedIsOr ==
    pc = "diagnosed" =>
        \A i \in DOMAIN df_f :
            /\ df_f[i].Flagged <=>
                  (df_f[i].IQR_Outlier \/ df_f[i].HighLeverage \/ df_f[i].HighCooksD)
            /\ df_f[i].FlagReason = ExpectedReason(df_f[i])
            /\ df_f[i].Flagged <=> (df_f[i].FlagReason # "")
            /\ ~in_diag.use_iqr => ~df_f[i].IQR_Outlier
            /\ ~in_diag.use_cooks => ~df_f[i].HighLeverage /\ ~df_f[i].HighCooksD

\* a table with a record flagged by two rules, a record flagged by Cook's
\* distance only and a record that no rule flags
C14_Witness ==
    /\ pc = "diagnosed"
    /\ \E i \in DOMAIN df_f : df_f[i].FlagReason = "IQR + Price Dev"
    /\ \E i \in DOMAIN df_f : ~df_f[i].Flagged

\* the prices of the last flagged column, ascending
SortedPrices == SortFloats(sold_prices(in_df))

\* the quartile number num (1 or 3) of the flagged column: the order statistic
\* at rank (n - 1) * num / 4, interpolated linearly between its neighbours
Quartile(num) ==
    LET o    == SortedPrices
        rank == (Len(o) - 1) * num
        lo   == rank \div 4
        part == rank % 4
    IN  IF part = 0 THEN o[lo + 1]
        ELSE FAdd(o[lo + 1], FMul(<<part, 4>>, FSub(o[lo + 2], o[lo + 1])))

LowerBound == FSub(Quartile(1), FMul(iqr.k, FSub(Quartile(3), Quartile(1))))
UpperBound == FAdd(Quartile(3), FMul(iqr.k, FSub(Quartile(3), Quartile(1))))

\* C15: compute_iqr_flags_cached flags a price exactly when it is strictly
\* below Q1 - k * iqr or strictly above Q3 + k * iqr, Q1 and Q3 the linearly
\* interpolated quartiles of the whole column; a price equal to a bound is
\* not flagged, and no price is flagged when all prices are equal.
C15_IqrFlags ==
    pc = "flagged" /\ in_df # <<>> =>
        /\ Len(iqr.flags) = Len(in_df)
        /\ \A i \in DOMAIN in_df :
              /\ iqr.flags[i] <=> (\/ FLt(in_df[i].SoldPrice, LowerBound)
                                   \/ FLt(UpperBound, in_df[i].SoldPrice))
              /\ (in_df[i].SoldPrice = LowerBound \/ in_df[i].SoldPrice = UpperBound)
                    => ~iqr.flags[i]
        /\ (\A i, j \in DOMAIN in_df : in_df[i].SoldPrice = in_df[j].SoldPrice)
              => \A i \in DOMAIN in_df : ~iqr.flags[i]

\* a column with distinct quartiles in which one price lies on the lower bound and is not flagged while a price above
\* the upper bound is flagged
C15_Witness ==
    /\ pc = "flagged"
    /\ in_df # <<>>
    /\ Quartile(1) # Quartile(3)
    /\ \E i \in DOMAIN in_df : in_df[i].SoldPrice = LowerBound /\ ~iqr.flags[i]
    /\ \E i \in DOMAIN in_df : FLt(UpperBound, in_df[i].SoldPrice) /\ iqr.flags[i]


C17_FewRecordsNoFlags ==
    pc = "diagnosed" /\ in_diag.use_cooks =>
        /\ Len(df_f) = Cardinality(UsableRecords)
        /\ Cardinality(UsableRecords) < 6 =>
              \A i \in DOMAIN df_f :
                  /\ ~df_f[i].HighLeverage
                  /\ ~df_f[i].HighCooksD
                  /\ isna(df_f[i].Leverage)
                  /\ isna(df_f[i].CooksD)
        /\ Cardinality(UsableRecords) >= 6 =>
              \A i \in DOMAIN df_f :
                  /\ ~isna(df_f[i].Leverage)
                  /\ ~isna(df_f[i].CooksD)

\* six records of which one lacks its price: five are left, one of them far
\* from the others in price, and no flag is set
C17_Witness ==
    /\ pc = "diagnosed"
    /\ in_diag.use_cooks
    /\ ~in_diag.use_iqr
    /\ Len(in_df) = 6
    /\ Len(df_f) = 5
    /\ \E i, j \in DOMAIN df_f : df_f[i].SoldPrice = F(1) /\ df_f[j].SoldPrice = F(16)
    /\ \A i \in DOMAIN df_f : ~df_f[i].Flagged

\* the regression was run by the last diagnostics call
RegressionRun == pc = "diagnosed" /\ in_diag.use_cooks /\ Len(df_f) >= 6

\* residuals of the records of the table about the fitted trend
TrendResiduals ==
    residuals(ols_fit(elapsed_days(df_f), log_prices(df_f)),
              elapsed_days(df_f), log_prices(df_f))

SumOfSquares(r) == FSum([i \in DOMAIN r |-> FMul(r[i], r[i])])

HiddenRows == RowIDs(uploaded_data) \ editor_rows(session_diagnostics)

\* C19: when the diagnostics step is left for step 4, whatever the filter
\* chosen before, a record that the editor does not show keeps its state: it
\* is excluded afterwards exactly when it was excluded before.
C19_HiddenRowsKeepState ==
    [][step = 3 /\ step' = 4 /\ uploaded_data # NoData =>
          \A rid \in HiddenRows :
              (rid \in excluded_rowids') <=> (rid \in excluded_rowids)]_vars

\* the records that rid denotes in a table: their contract date and price
Denotes(table, rid) ==
    {<<table[i].ContractDate, table[i].SoldPrice>> :
        i \in {j \in DOMAIN table : table[j].RowID = rid}}

\* every row of a table derived from the store is the stored record of its RowID
SameRecords(table) ==
    \A i \in DOMAIN table :
        Denotes(uploaded_data, table[i].RowID) =
            {<<table[i].ContractDate, table[i].SoldPrice>>}

\* RowIDs are the upload positions 0, 1, ..: one stored record for each RowID
RowIDsUnique ==
    uploaded_data # NoData =>
        /\ \A i \in DOMAIN uploaded_data : uploaded_data[i].RowID = i - 1
        /\ \A rid \in RowIDs(uploaded_data) :
              Cardinality({i \in DOMAIN uploaded_data : uploaded_data[i].RowID = rid}) = 1
        /\ SameRecords(session_diagnostics)
        /\ SameRecords(model_rows(uploaded_data, excluded_rowids))

\* C20: the RowIDs of the stored records are their positions in the cleaned
\* upload and are unique; the diagnostics table and the rows kept for the
\* model carry each record under its stored RowID; and no exclusion toggle,
\* restore, Remove All Outliers, Clear All, filter choice, comparable
\* selection, diagnostic setting or step navigation changes the record that a
\* RowID denotes in the store.
C20_RowIDStable ==
    /\ []RowIDsUnique
    /\ [][\A rid \in RowIDs(uploaded_data) :
              Denotes(uploaded_data', rid) = Denotes(uploaded_data, rid)]_vars

\* back at the diagnostics step after Apply & Next and a comparable selection,
\* with the regression rule switched on, a filter chosen and every flagged
\* record excluded while a record that is not flagged is excluded as well
C20_Witness ==
    /\ step = 3
    /\ diagnostics_df = "df"
    /\ selected_comps # {}
    /\ settings.use_cooks
    /\ filter_opt = "Flagged Only"
    /\ flagged_ids(session_diagnostics) # {}
    /\ flagged_ids(session_diagnostics) \subseteq excluded_rowids
    /\ excluded_rowids \ flagged_ids(session_diagnostics) # {}
    /\ Len(uploaded_data) = MaxStored

\* the percent adjustment that was labelled, and whether it is defined
Labelled == pc = "labelled"
AdjDefined == labels.adj_pct[2] # 0

\* adj_pct > n/d and adj_pct < n/d for a defined adj_pct, d > 0
AdjAbove(n, d) == AdjDefined /\ labels.adj_pct[1] * d > n * labels.adj_pct[2]
AdjBelow(n, d) == AdjDefined /\ labels.adj_pct[1] * d < n * labels.adj_pct[2]

\* C22: with the default threshold the category is 'Increasing' exactly when
\* the percent adjustment is strictly above +0.5, 'Declining' exactly when it
\* is strictly below -0.5, 'Stable' exactly when it is defined and neither
\* (so +0.5 and -0.5 are 'Stable'), and 'N/A' exactly when it is undefined.
C22_CategoryLabels ==
    Labelled =>
        /\ (labels.category = "Increasing") <=> AdjAbove(1, 2)
        /\ (labels.category = "Declining") <=> AdjBelow(-1, 2)
        /\ (labels.category = "Stable") <=>
               (AdjDefined /\ ~AdjAbove(1, 2) /\ ~AdjBelow(-1, 2))
        /\ (labels.category = "N/A") <=> ~AdjDefined

\* the adjustment of exactly -0.5 percent is labelled 'Stable'
C22_Witness ==
    /\ Labelled
    /\ labels.adj_pct = <<-1, 2>>
    /\ labels.category = "Stable"

\* magnitude of the labelled adjustment at least 1/10
AdjSizable == AdjAbove(1, 10) \/ AdjBelow(-1, 10) \/ labels.adj_pct \in {<<1, 10>>, <<-1, 10>>}

\* C23: the direction is 'NO ADJUSTMENT' exactly when the percent adjustment
\* is undefined or of magnitude below 0.1, 'UPWARD' exactly when it is
\* positive of magnitude at least 0.1 and 'DOWNWARD' exactly when it is
\* negative of magnitude at least 0.1; every 'Increasing' is 'UPWARD' and
\* every 'Declining' is 'DOWNWARD'.
C23_DirectionLabels ==
    Labelled =>
        /\ (labels.direction = "NO ADJUSTMENT") <=> (~AdjDefined \/ ~AdjSizable)
        /\ (labels.direction = "UPWARD") <=> (AdjSizable /\ AdjAbove(0, 1))
        /\ (labels.direction = "DOWNWARD") <=> (AdjSizable /\ AdjBelow(0, 1))
        /\ labels.category = "Increasing" => labels.direction = "UPWARD"
        /\ labels.category = "Declining" => labels.direction = "DOWNWARD"

\* the adjustment of exactly +0.1 percent is 'Stable' and 'UPWARD' at once
C23_Witness ==
    /\ Labelled
    /\ labels.adj_pct = <<1, 10>>
    /\ labels.category = "Stable"
    /\ labels.direction = "UPWARD"

\* the buckets of the centered window of the width in use around bucket i:
\* the window holds w buckets, (w - 1) \div 2 of them after bucket i, and is
\* cut at both ends of the series
WindowAround(i) ==
    LET w     == IF in_smooth < 2 THEN 2 ELSE in_smooth
        after == (w - 1) \div 2
    IN  {j \in 1..Len(index_df) : i + after - w < j /\ j <= i + after}

RECURSIVE RawTotal(_)
RawTotal(S) ==
    IF S = {} THEN F(0)
    ELSE LET j == CHOOSE j \in S : TRUE
         IN  FAdd(index_df[j].Index_Raw, RawTotal(S \ {j}))

RawBetween(x) ==
    /\ \E j \in 1..Len(index_df) : FLe(index_df[j].Index_Raw, x)
    /\ \E j \in 1..Len(index_df) : FLe(x, index_df[j].Index_Raw)

\* C24: in every built series Index_Smoothed of every bucket is a number, the
\* mean of Index_Raw over the buckets of the centered window around the bucket
\* that exist; it is neither below the smallest nor above the largest
\* Index_Raw, and it is 1 in a series of one bucket
C24_SmoothedIsWindowMean ==
    BuiltSeries =>
        /\ \A i \in 1..Len(index_df) :
              /\ ~isna(index_df[i].Index_Smoothed)
              /\ WindowAround(i) # {}
              /\ index_df[i].Index_Smoothed
                    = FDiv(RawTotal(WindowAround(i)), F(Cardinality(WindowAround(i))))
              /\ RawBetween(index_df[i].Index_Smoothed)
        /\ Len(index_df) = 1 => index_df[1].Index_Smoothed = F(1)

\* a series of three buckets with differing raw values, smoothed over 3 buckets:
\* the window of the first bucket is cut to two buckets
C24_Witness ==
    /\ BuiltSeries
    /\ in_smooth = 3
    /\ Len(index_df) = 3
    /\ index_df[1].Index_Raw # index_df[2].Index_Raw
    /\ index_df[2].Index_Raw # index_df[3].Index_Raw
    /\ WindowAround(1) = {1, 2}
    /\ index_df[1].Index_Smoothed # index_df[1].Index_Raw

\* C25: a series built with a smooth_window of 2 or less is the series built
\* with smooth_window = 2 from the same records and the same min_sales
C25_WindowClamped ==
    (BuiltSeries /\ in_smooth <= 2) =>
        index_df = build_index_cached(in_df, in_min_sales, 2)

\* a series built with smooth_window = 0 in which smoothing changes a value
C25_Witness ==
    /\ BuiltSeries
    /\ in_smooth = 0
    /\ \E i \in 1..Len(index_df) : index_df[i].Index_Smoothed # index_df[i].Index_Raw

\* the records of in_df with the i-th and the j-th exchanged
Exchanged(i, j) ==
    [k \in DOMAIN in_df |-> IF k = i THEN in_df[j] ELSE IF k = j THEN in_df[i] ELSE in_df[k]]

HistoryKey(r) == <<r.subject_address, r.eff_date>>

\* at most max_reports reports, no two for one address and effective date
HistoryBounded ==
    LET h == history_file.reports
    IN  /\ Len(h) <= max_reports
        /\ \A i \in DOMAIN h : \A j \in DOMAIN h :
              HistoryKey(h[i]) = HistoryKey(h[j]) => i = j

\* the report a save writes carries the session's address, date and content
SavedFrom(r) ==
    /\ HistoryKey(r) = <<subject_address', isoformat(eff_date')>>
    /\ r.settings = settings'
    /\ r.excluded_rowids = excluded_rowids'
    /\ r.selected_comps = selected_comps'
    /\ r.uploaded_data_csv = to_csv(uploaded_data')

\* a save either replaces the stored report of the same address and date where
\* it stands, or puts the new report first, moves the others one place down
\* and drops what was the 50th
SaveReplacesOrInserts ==
    pc' = "saved" =>
        LET h  == history_file.reports
            h2 == history_file'.reports
            m  == {i \in DOMAIN h :
                      HistoryKey(h[i]) = <<subject_address', isoformat(eff_date')>>}
        IN  IF m # {}
            THEN /\ Len(h2) = Len(h)
                 /\ \A i \in DOMAIN h : IF i \in m THEN SavedFrom(h2[i]) ELSE h2[i] = h[i]
            ELSE /\ Len(h2) = (IF Len(h) < max_reports THEN Len(h) + 1 ELSE max_reports)
                 /\ SavedFrom(h2[1])
                 /\ \A i \in 2..Len(h2) : h2[i] = h[i - 1]

\* C27: after any sequence of saves and deletes the history holds at most 50
\* reports and at most one per address and effective date; a save for a stored
\* address and date replaces that report in place, any other save puts the
\* report first and drops the reports beyond the 50th
C27_HistoryBounded ==
    /\ []HistoryBounded
    /\ [][SaveReplacesOrInserts]_vars

\* a full history after one save for a new address: the new report stands
\* first and the report that was 50th is gone
C27_Witness ==
    /\ pc = "saved"
    /\ calls = 1
    /\ Len(history_file.reports) = max_reports
    /\ history_file.reports[1].subject_address = "9 Oak Ave"
    /\ history_file.reports[2] = StoredReport(1)
    /\ \A i \in DOMAIN history_file.reports :
          history_file.reports[i] # StoredReport(max_reports)

\* the uploaded records that are not in the exclusion set
NonExcluded == SelectSeq(uploaded_data, LAMBDA r : r.RowID \notin excluded_rowids)

\* the index series built from the non-excluded records and the current settings
NonExcludedIndex ==
    build_index_cached([i \in 1..Len(NonExcluded) |->
                           [ContractDate |-> NonExcluded[i].ContractDate,
                            SoldPrice    |-> NonExcluded[i].SoldPrice]],
                       settings.min_sales_per_month, settings.smooth_window)

\* C28: every row of the adjustment table is the row of an uploaded record that
\* is selected and not excluded, no record has two rows, the row's
\* Index_Contract is looked up in the index built from the non-excluded
\* records, and that lookup finds the record's own month (mode 'exact')
C28_RowsSelectedNotExcluded ==
    /\ \A i \in DOMAIN Rows :
          /\ Rows[i].RowID \in selected_comps
          /\ Rows[i].RowID \notin excluded_rowids
          /\ \E j \in DOMAIN uploaded_data :
                /\ uploaded_data[j].RowID = Rows[i].RowID
                /\ uploaded_data[j].ContractDate = Rows[i].ContractDate
                /\ uploaded_data[j].SoldPrice = Rows[i].SalePrice
          /\ LET l == lookup_index(NonExcludedIndex, Rows[i].ContractDate, report.math_col)
             IN  /\ l.mode = "exact"
                 /\ Rows[i].Index_Contract = l.value
    /\ \A i \in DOMAIN Rows : \A j \in DOMAIN Rows : Rows[i].RowID = Rows[j].RowID => i = j

\* a report with a row, drawn up while a selected record is excluded
C28_Witness ==
    /\ step = 5
    /\ report.shown
    /\ Rows # <<>>
    /\ \E rid \in selected_comps :
          /\ rid \in excluded_rowids
          /\ rid \in RowIDs(uploaded_data)
    /\ settings.min_sales_per_month > 1

\* C29: the exclusion set and the selection hold only RowIDs chosen against the
\* uploaded data: when an upload puts other data in place, nothing has been
\* chosen against it yet, so both are empty after the upload
C29_UploadResetsChoices ==
    [][(uploaded_data' # uploaded_data /\ uploaded_data' # NoData) =>
          (excluded_rowids' = {} /\ selected_comps' = {})]_vars

\* C30: the step is one of 1..5, and at steps 3, 4 and 5 the uploaded data is
\* present
C30_StepsNeedData ==
    /\ step \in 1..5
    /\ step \in {3, 4, 5} => uploaded_data # NoData


====
